---- MODULE Spec2Model ----
(***************************************************************************)
(* State-machine model of the rpg_sim simulation core of RPG-Play-Project: *)
(*   - SessionEngine.run (src/src/rpg_sim/session.py), driven as           *)
(*     run_single does (src/main.py), with its three collaborators:        *)
(*     rulesets (rules/generic.py, srd.py), directors (agents.py, srd.py,  *)
(*     ai_agents.py) and actors (agents.py, ai_agents.py);                 *)
(*   - PolicyDrivenActor's scoring (ai_agents.py);                         *)
(*   - the session ledger (ledger.py).                                     *)
(*                                                                         *)
(* Conventions.  Scores are Python floats; the model keeps them as exact   *)
(* hundredths (1.0 is 100) together with a NaN marker.  Texts searched     *)
(* for keywords (char_class, role + personality) are kept as the set of    *)
(* keywords the lower-cased text contains.  random.Random is a             *)
(* deterministic generator whose algorithm lives outside the repository;   *)
(* it is modelled by a full-period Lehmer generator.                       *)
(***************************************************************************)
EXTENDS Integers, Sequences, FiniteSets, TLC

\* ---------------------------------------------------------------- bounds
MaxTurns == 2
MaxParty == 2
MaxHp == 1
MaxSeed == 1
MaxSessions == 3
MaxEnsures == 2
MaxTurnIndex == 5
MaxPlayHp == 4
MaxAmount == 5
MaxRounds == 2
MaxEncounters == 3
MaxStartHp == 5
MaxRunSeed == 19
MaxReplyLen == 3

\* ------------------------------------------------------- generic helpers
Range(s) == {s[i] : i \in DOMAIN s}

EmptyMap == [x \in {} |-> ""]

MapGet(m, k, default) == IF k \in DOMAIN m THEN m[k] ELSE default

\* dict.update(other): keys of other win, other keys are kept
\* data.get(key, default) of a JSON object
Get(data, key, default) == IF key \in DOMAIN data THEN data[key] ELSE default

DictUpdate(m, other) == other @@ m

RECURSIVE Dedup(_)
Dedup(s) ==
  IF s = <<>> THEN <<>>
  ELSE LET front == Dedup(SubSeq(s, 1, Len(s) - 1))
           last == s[Len(s)]
       IN IF last \in Range(front) THEN front ELSE Append(front, last)

Count(s, x) == Cardinality({i \in DOMAIN s : s[i] = x})

\* ------------------------------------------------------------ the RNG
RngModulus == 101
RngMultiplier == 7

\* random.Random(random_seed)
SeedRng(seed) == 1 + (seed % (RngModulus - 1))

RngNext(s) == (s * RngMultiplier) % RngModulus

\* value of the draw that takes the generator from s to RngNext(s)
RandBelow(s, n) == RngNext(s) % n
RandInt(s, lo, hi) == lo + RandBelow(s, hi - lo + 1)

\* ---------------------------------------------------------- Python floats
F(v) == [nan |-> FALSE, v |-> v]
NaN == [nan |-> TRUE, v |-> 0]
FAdd(a, b) == IF a.nan \/ b.nan THEN NaN ELSE F(a.v + b.v)
FGt(a, b) == ~a.nan /\ ~b.nan /\ a.v > b.v
FEq(a, b) == ~a.nan /\ ~b.nan /\ a.v = b.v

\* max(iterable): keeps the first item unless a later one compares greater
RECURSIVE PyMaxFrom(_, _, _)
PyMaxFrom(vals, i, best) ==
  IF i > Len(vals) THEN best
  ELSE PyMaxFrom(vals, i + 1, IF FGt(vals[i], best) THEN vals[i] ELSE best)
PyMax(vals) == PyMaxFrom(vals, 2, vals[1])

\* ------------------------------------------------------------- vocabulary
GenericOptionsWithFlee ==
  <<"attack", "defend", "investigate", "negotiate", "rest", "flee">>
GenericOptions == <<"attack", "defend", "investigate", "negotiate", "rest">>
SrdOptions == <<"attack", "defend", "investigate", "negotiate", "rest",
                "use-equipment", "exploit-mastery">>

\* names held by the SRD data set (the data file is not part of the sources)
ConditionNames == <<"blinded", "prone">>
EquipmentNames == <<"rope", "torch">>
BackgroundNames == <<"acolyte", "sage">>
MasteryNames == <<"cleave", "nick">>

\* ---------------------------------------------------------------- rulesets
GenericAllowed == {"attack", "defend", "investigate", "negotiate", "rest"}
SrdAllowed == {"attack", "defend", "investigate", "negotiate", "rest",
               "use-equipment", "exploit-mastery"}

\* BaseRuleset.validate_intent of the three rulesets of the model: the
\* generic one, the SRD one, and "custom", an arbitrary implementation of
\* the interface that accepts every intent
ValidateIntent(ruleset, action) ==
  CASE ruleset = "generic" -> action \in GenericAllowed
    [] ruleset = "srd" -> action \in SrdAllowed
    [] OTHER -> TRUE

Outcome(actor, success, summary, roll, item, hp_delta, flag_updates) ==
  [actor_name |-> actor, success |-> success, summary |-> summary,
   roll |-> roll, item |-> item, hp_delta |-> hp_delta,
   flag_updates |-> flag_updates]

\* GenericD20Ruleset.resolve_intent with an attack that needs 11 to hit
GenericResolveHarsh(action, actor, roll) ==
  CASE action = "attack" ->
         LET success == roll >= 11
         IN Outcome(actor, success,
                    IF success THEN "attacks and lands a hit"
                               ELSE "misses and takes strain",
                    roll, "", (actor :> (IF ~success THEN -1 ELSE 0)), EmptyMap)
    [] action = "defend" ->
         LET success == roll >= 8
         IN Outcome(actor, success,
                    IF success THEN "fortifies position"
                               ELSE "fails to brace in time",
                    roll, "", EmptyMap, EmptyMap)
    [] action = "investigate" ->
         LET success == roll >= 11
             discovered == IF success THEN "clue_discovered" ELSE ""
         IN Outcome(actor, success,
                    IF success THEN "uncovers a clue"
                               ELSE "finds nothing useful",
                    roll, "", EmptyMap,
                    IF discovered # "" THEN ("latest_discovery" :> discovered)
                                       ELSE EmptyMap)
    [] action = "negotiate" ->
         LET success == roll >= 12
         IN Outcome(actor, success,
                    IF success THEN "secures a favorable bargain"
                               ELSE "fails to persuade",
                    roll, "", EmptyMap, EmptyMap)
    [] OTHER ->
         Outcome(actor, TRUE, "takes a breath and recovers", roll, "",
                 (actor :> 1), EmptyMap)

\* GenericD20Ruleset.resolve_intent writing the empty discovery of a failed
\* investigate, and of an attack, into flag_updates
GenericResolveClearing(action, actor, roll) ==
  CASE action = "attack" ->
         LET success == roll >= 10
         IN Outcome(actor, success,
                    IF success THEN "attacks and lands a hit"
                               ELSE "misses and takes strain",
                    roll, "", (actor :> (IF ~success THEN -1 ELSE 0)),
                    ("latest_discovery" :> ""))
    [] action = "defend" ->
         LET success == roll >= 8
         IN Outcome(actor, success,
                    IF success THEN "fortifies position"
                               ELSE "fails to brace in time",
                    roll, "", EmptyMap, EmptyMap)
    [] action = "investigate" ->
         LET success == roll >= 11
             discovered == IF success THEN "clue_discovered" ELSE ""
         IN Outcome(actor, success,
                    IF success THEN "uncovers a clue"
                               ELSE "finds nothing useful",
                    roll, "", EmptyMap,
                    ("latest_discovery" :> discovered))
    [] action = "negotiate" ->
         LET success == roll >= 12
         IN Outcome(actor, success,
                    IF success THEN "secures a favorable bargain"
                               ELSE "fails to persuade",
                    roll, "", EmptyMap, EmptyMap)
    [] OTHER ->
         Outcome(actor, TRUE, "takes a breath and recovers", roll, "",
                 (actor :> 1), EmptyMap)

\* GenericD20Ruleset.resolve_intent for a drawn roll
GenericResolve(action, actor, roll) ==
  CASE action = "attack" ->
         LET success == roll >= 10
         IN Outcome(actor, success,
                    IF success THEN "attacks and lands a hit"
                               ELSE "misses and takes strain",
                    roll, "", (actor :> (IF ~success THEN -1 ELSE 0)), EmptyMap)
    [] action = "defend" ->
         LET success == roll >= 8
         IN Outcome(actor, success,
                    IF success THEN "fortifies position"
                               ELSE "fails to brace in time",
                    roll, "", EmptyMap, EmptyMap)
    [] action = "investigate" ->
         LET success == roll >= 11
             discovered == IF success THEN "clue_discovered" ELSE ""
         IN Outcome(actor, success,
                    IF success THEN "uncovers a clue"
                               ELSE "finds nothing useful",
                    roll, "", EmptyMap,
                    IF discovered # "" THEN ("latest_discovery" :> discovered)
                                       ELSE EmptyMap)
    [] action = "negotiate" ->
         LET success == roll >= 12
         IN Outcome(actor, success,
                    IF success THEN "secures a favorable bargain"
                               ELSE "fails to persuade",
                    roll, "", EmptyMap, EmptyMap)
    [] OTHER ->
         Outcome(actor, TRUE, "takes a breath and recovers", roll, "",
                 (actor :> 1), EmptyMap)

\* resolve_intent with an SRD ruleset that draws once before handing a
\* generic action to GenericD20Ruleset
RulesetResolveExtraDraw(ruleset, action, actor, rng) ==
  IF ruleset = "srd" /\ action = "use-equipment" THEN
    LET roll == RandInt(rng, 1, 20)
        rng1 == RngNext(rng)
        item == EquipmentNames[1 + RandBelow(rng1, Len(EquipmentNames))]
        success == roll >= 9
    IN [outcome |-> Outcome(actor, success,
                            IF success THEN "uses item effectively"
                                       ELSE "fumbles item under pressure",
                            roll, item,
                            (actor :> (IF success THEN 0 ELSE -1)), EmptyMap),
        rng |-> RngNext(rng1)]
  ELSE IF ruleset = "srd" /\ action = "exploit-mastery" THEN
    LET roll == RandInt(rng, 1, 20)
        rng1 == RngNext(rng)
        mastery == MasteryNames[1 + RandBelow(rng1, Len(MasteryNames))]
        success == roll >= 11
    IN [outcome |-> Outcome(actor, success,
                            IF success THEN "applies mastery to gain momentum"
                                       ELSE "fails to trigger mastery",
                            roll, mastery, EmptyMap,
                            IF success THEN ("latest_mastery" :> mastery)
                                       ELSE EmptyMap),
        rng |-> RngNext(rng1)]
  ELSE IF ruleset = "srd" THEN
    [outcome |-> GenericResolve(action, actor, RandInt(RngNext(rng), 1, 20)),
     rng |-> RngNext(RngNext(rng))]
  ELSE
    [outcome |-> GenericResolve(action, actor, RandInt(rng, 1, 20)),
     rng |-> RngNext(rng)]

\* resolve_intent of a ruleset with generator state rng: the outcome and the
\* generator state it leaves
RulesetResolve(ruleset, action, actor, rng) ==
  IF ruleset = "srd" /\ action = "use-equipment" THEN
    LET roll == RandInt(rng, 1, 20)
        rng1 == RngNext(rng)
        item == EquipmentNames[1 + RandBelow(rng1, Len(EquipmentNames))]
        success == roll >= 9
    IN [outcome |-> Outcome(actor, success,
                            IF success THEN "uses item effectively"
                                       ELSE "fumbles item under pressure",
                            roll, item,
                            (actor :> (IF success THEN 0 ELSE -1)), EmptyMap),
        rng |-> RngNext(rng1)]
  ELSE IF ruleset = "srd" /\ action = "exploit-mastery" THEN
    LET roll == RandInt(rng, 1, 20)
        rng1 == RngNext(rng)
        mastery == MasteryNames[1 + RandBelow(rng1, Len(MasteryNames))]
        success == roll >= 11
    IN [outcome |-> Outcome(actor, success,
                            IF success THEN "applies mastery to gain momentum"
                                       ELSE "fails to trigger mastery",
                            roll, mastery, EmptyMap,
                            IF success THEN ("latest_mastery" :> mastery)
                                       ELSE EmptyMap),
        rng |-> RngNext(rng1)]
  ELSE
    [outcome |-> GenericResolve(action, actor, RandInt(rng, 1, 20)),
     rng |-> RngNext(rng)]

\* ---------------------------------------------------------------- directors
Scene(prompt, options) == [prompt |-> prompt, options |-> options]

Prompt(encounter, srd, excerpt, tone, text) ==
  [encounter |-> encounter, srd |-> srd, excerpt |-> excerpt,
   tone |-> tone, text |-> text]

\* the encounter picked with turn_index instead of turn_index - 1
SceneEncounterFromZero(campaign) ==
  IF Len(campaign.encounters) > 0
  THEN campaign.encounters[(campaign.turn_index % Len(campaign.encounters)) + 1]
  ELSE "A quiet moment with uncertain tension."

\* the encounter a scene is built from
SceneEncounter(campaign) ==
  IF Len(campaign.encounters) > 0
  THEN campaign.encounters[((campaign.turn_index - 1) % Len(campaign.encounters)) + 1]
  ELSE "A quiet moment with uncertain tension."

\* SimpleDirector.build_scene: the scene and the director's generator state
SimpleBuildScene(campaign, chunks, rng) ==
  IF chunks > 0
  THEN [scene |-> Scene(Prompt(SceneEncounter(campaign), <<>>,
                               1 + RandBelow(rng, chunks), FALSE, "base"),
                        GenericOptions),
        rng |-> RngNext(rng)]
  ELSE [scene |-> Scene(Prompt(SceneEncounter(campaign), <<>>, 0, FALSE, "base"),
                        GenericOptions),
        rng |-> rng]

\* SRD2024Director.build_scene: four _pick draws, then the source excerpt
SrdBuildScene(campaign, chunks, rng) ==
  LET r1 == RngNext(rng)
      r2 == RngNext(r1)
      r3 == RngNext(r2)
      r4 == RngNext(r3)
      flavor == <<ConditionNames[1 + RandBelow(rng, Len(ConditionNames))],
                  EquipmentNames[1 + RandBelow(r1, Len(EquipmentNames))],
                  BackgroundNames[1 + RandBelow(r2, Len(BackgroundNames))],
                  MasteryNames[1 + RandBelow(r3, Len(MasteryNames))]>>
  IN IF chunks > 0
     THEN [scene |-> Scene(Prompt(SceneEncounter(campaign), flavor,
                                  1 + RandBelow(r4, chunks), FALSE, "base"),
                           SrdOptions),
           rng |-> RngNext(r4)]
     ELSE [scene |-> Scene(Prompt(SceneEncounter(campaign), flavor, 0, FALSE, "base"),
                           SrdOptions),
           rng |-> r4]

FallbackBuildScene(base, campaign, chunks, rng) ==
  IF base = "srd" THEN SrdBuildScene(campaign, chunks, rng)
                  ELSE SimpleBuildScene(campaign, chunks, rng)

\* _clean_options over a raw JSON value: islist says whether it is a list,
\* each element says whether it is a string and holds its text after strip()
RECURSIVE CleanLoop(_, _, _)
CleanLoop(raw, i, cleaned) ==
  IF i > Len(raw) THEN cleaned
  ELSE CleanLoop(raw, i + 1,
                 IF raw[i].isstr /\ raw[i].token # "" /\ raw[i].token \notin Range(cleaned)
                 THEN Append(cleaned, raw[i].token)
                 ELSE cleaned)

CleanOptions(islist, raw) ==
  IF ~islist THEN <<>>
  ELSE LET cleaned == CleanLoop(raw, 1, <<>>)
       IN SubSeq(cleaned, 1, IF Len(cleaned) < 8 THEN Len(cleaned) ELSE 8)

\* AIDirector._apply_fallback_guidance
ApplyFallbackGuidance(scene, guidance) ==
  IF ~guidance THEN scene
  ELSE Scene([scene.prompt EXCEPT !.tone = TRUE], scene.options)

\* the mutant of AiBuildScene: the cleaned options are not matched against
\* the fallback scene's
AiBuildSceneUnfiltered(fallback_scene, use_ai, api_key, guidance, response) ==
  IF ~use_ai \/ ~api_key THEN ApplyFallbackGuidance(fallback_scene, guidance)
  ELSE IF ~response.isdict THEN fallback_scene
  ELSE LET prompt == IF response.prompt_ok
                     THEN [fallback_scene.prompt EXCEPT !.text = "ai"]
                     ELSE fallback_scene.prompt
           cleaned == CleanOptions(response.islist, response.options)
       IN Scene(prompt,
                IF cleaned # <<>> THEN cleaned ELSE fallback_scene.options)

\* AIDirector.build_scene after the fallback scene is built; response is
\* what _call_openai_json returned (isdict FALSE stands for None)
AiBuildScene(fallback_scene, use_ai, api_key, guidance, response) ==
  IF ~use_ai \/ ~api_key THEN ApplyFallbackGuidance(fallback_scene, guidance)
  ELSE IF ~response.isdict THEN fallback_scene
  ELSE LET prompt == IF response.prompt_ok
                     THEN [fallback_scene.prompt EXCEPT !.text = "ai"]
                     ELSE fallback_scene.prompt
           cleaned == CleanOptions(response.islist, response.options)
           filtered == SelectSeq(cleaned,
                                 LAMBDA o : o \in Range(fallback_scene.options))
       IN Scene(prompt,
                IF filtered # <<>> THEN filtered ELSE fallback_scene.options)

\* ------------------------------------------------------------------ actors
Intent(actor, action) == [actor_name |-> actor, action |-> action]

\* next(member for member in campaign.party if member.name == actor_name)
FindMember(party, name) ==
  party[CHOOSE i \in DOMAIN party :
          /\ party[i].name = name
          /\ \A j \in DOMAIN party : party[j].name = name => i <= j]

NoDiscoveryAbsentOnly(flags) == "latest_discovery" \notin DOMAIN flags

NoDiscovery(flags) == MapGet(flags, "latest_discovery", "") = ""

\* the mutant of HeuristicChoose: no rest at low hp
HeuristicChooseReckless(campaign, scene, actor_name) ==
  IF NoDiscovery(campaign.flags) /\ "investigate" \in Range(scene.options)
    THEN "investigate"
  ELSE IF "attack" \in Range(scene.options) THEN "attack"
  ELSE scene.options[1]

\* HeuristicActor.choose_action
HeuristicChoose(campaign, scene, actor_name) ==
  LET actor == FindMember(campaign.party, actor_name)
  IN IF actor.hp <= 3 /\ "rest" \in Range(scene.options) THEN "rest"
     ELSE IF NoDiscovery(campaign.flags) /\ "investigate" \in Range(scene.options)
          THEN "investigate"
     ELSE IF "attack" \in Range(scene.options) THEN "attack"
     ELSE scene.options[1]

\* LLMActorAdapter.choose_action: response.get("action", "defend")
LlmChoose(response) ==
  IF response.has_action THEN response.action ELSE "defend"

\* ------------------------------------------------------- PolicyDrivenActor
\* A policy is the dict of one character (or the default): each key is
\* "missing" or holds a value of a kind.  priorities: "dict" (map from option
\* to an entry of kind "num", "nan" or "bad" = not a number) or "bad" (not a
\* dict, e.g. a number); caution, aggression, exploration: "num" or "bad";
\* tie_breaker: "list" or "bad".
Missing == [kind |-> "missing", v |-> 0]
Num(v) == [kind |-> "num", v |-> v]
NanEntry == [kind |-> "nan", v |-> 0]
BadEntry == [kind |-> "bad", v |-> 0]
\* a JSON true or false: a Python bool, which is an int to isinstance
BoolEntry(b) == [kind |-> "bool", v |-> IF b THEN 100 ELSE 0]
MissingDict == [kind |-> "missing", map |-> EmptyMap]
BadDict == [kind |-> "bad", map |-> EmptyMap]
Dict(m) == [kind |-> "dict", map |-> m]
MissingList == [kind |-> "missing", list |-> <<>>]
BadList == [kind |-> "bad", list |-> <<>>]
List(l) == [kind |-> "list", list |-> l]

EmptyPolicy ==
  [priorities |-> MissingDict, caution |-> Missing, aggression |-> Missing,
   exploration |-> Missing, tie_breaker |-> MissingList]

EmptyCampaignPolicy ==
  [preferred_actions |-> MissingList, avoid_actions |-> MissingList]

\* {"campaign": {}, "default": {}, "characters": {}}
EmptyProfile ==
  [campaign |-> EmptyCampaignPolicy, default |-> EmptyPolicy,
   characters |-> [x \in {} |-> [isdict |-> TRUE, policy |-> EmptyPolicy]]]

\* PolicyDrivenActor._resolve_policy: ok is FALSE when the call raises
\* (dict(base.get("priorities", {})) on priorities that are not a dict);
\* stored is policy_profile["default"] after the call, which works on copies
ResolvePolicy(profile, actor_name) ==
  LET base == profile.default
      overrides == IF actor_name \in DOMAIN profile.characters
                   THEN profile.characters[actor_name]
                   ELSE [isdict |-> TRUE, policy |-> EmptyPolicy]
      over == overrides.policy
      pick(field) == IF over[field].kind # "missing" THEN over[field] ELSE base[field]
  IN IF ~overrides.isdict THEN [ok |-> TRUE, policy |-> base, stored |-> base]
     ELSE IF over.priorities.kind = "dict" /\ base.priorities.kind = "bad"
     THEN [ok |-> FALSE, policy |-> base, stored |-> base]
     ELSE [ok |-> TRUE,
           policy |->
             [priorities |-> IF over.priorities.kind = "dict"
                             THEN Dict(DictUpdate(base.priorities.map,
                                                  over.priorities.map))
                             ELSE pick("priorities"),
              caution |-> pick("caution"),
              aggression |-> pick("aggression"),
              exploration |-> pick("exploration"),
              tie_breaker |-> pick("tie_breaker")],
           stored |-> base]

\* _as_float
AsFloat(value, default) ==
  IF value.kind \in {"num", "bool"} THEN value.v ELSE default

\* the keyword groups of _choose_from_policy
FaceTokens == {"face", "diplomat", "charisma"}
MartialTokens == {"fighter", "barbarian", "paladin", "ranger"}
ScholarTokens == {"wizard", "cleric", "rogue", "bard"}
MasteryTokens == {"fighter", "barbarian", "ranger"}

\* the score of one option after every additive step of _choose_from_policy
OptionScore(option, flags, actor, policy, campaign_policy) ==
  LET caution == AsFloat(policy.caution, 50)
      aggression == AsFloat(policy.aggression, 50)
      exploration == AsFloat(policy.exploration, 50)
      prio == IF policy.priorities.kind = "dict"
                 /\ option \in DOMAIN policy.priorities.map
              THEN policy.priorities.map[option]
              ELSE BadEntry
      s1 == IF prio.kind \in {"num", "bool"} THEN FAdd(F(100), F(prio.v))
            ELSE IF prio.kind = "nan" THEN NaN
            ELSE F(100)
      lowhp == IF actor.hp <= 3
               THEN CASE option = "rest" -> 250 + caution
                      [] option = "defend" -> 150 + caution
                      [] option = "attack" -> -100
                      [] OTHER -> 0
               ELSE 0
      discovery == IF NoDiscovery(flags) /\ option = "investigate"
                   THEN 150 + exploration ELSE 0
      face == IF option = "negotiate" /\ actor.role_text \cap FaceTokens # {}
              THEN 120 ELSE 0
      martial == IF option = "attack" /\ actor.char_class \cap MartialTokens # {}
                 THEN 120 + aggression ELSE 0
      scholar == IF option = "investigate" /\ actor.char_class \cap ScholarTokens # {}
                 THEN 100 + exploration ELSE 0
      mastery == IF option = "exploit-mastery" /\ actor.char_class \cap MasteryTokens # {}
                 THEN 100 + aggression ELSE 0
      equipment == IF option = "use-equipment" /\ actor.background THEN 60 ELSE 0
      preferred == IF campaign_policy.preferred_actions.kind = "list"
                   THEN 35 * Count(campaign_policy.preferred_actions.list, option)
                   ELSE 0
      avoid == IF campaign_policy.avoid_actions.kind = "list"
               THEN 45 * Count(campaign_policy.avoid_actions.list, option)
               ELSE 0
  IN FAdd(s1, F(lowhp + discovery + face + martial + scholar + mastery
                + equipment + preferred - avoid))

LastTieBreak(list, best_actions) ==
  LET hits == SelectSeq(list, LAMBDA a : a \in Range(best_actions))
  IN IF hits = <<>> THEN "" ELSE hits[Len(hits)]

FirstTieBreak(list, best_actions) ==
  LET hits == SelectSeq(list, LAMBDA a : a \in Range(best_actions))
  IN IF hits = <<>> THEN "" ELSE hits[1]

\* PolicyDrivenActor._choose_from_policy: the chosen action and the actor's
\* generator state afterwards
ChooseFromPolicy(flags, scene, actor, policy, campaign_policy, rng) ==
  LET keys == Dedup(scene.options)
      scores == [i \in DOMAIN keys |->
                   OptionScore(keys[i], flags, actor, policy, campaign_policy)]
      best_score == PyMax(scores)
      best_idx == SelectSeq([i \in DOMAIN keys |-> i],
                            LAMBDA i : FEq(scores[i], best_score))
      best_actions == [k \in DOMAIN best_idx |-> keys[best_idx[k]]]
      tie == IF policy.tie_breaker.kind = "list"
             THEN FirstTieBreak(policy.tie_breaker.list, best_actions)
             ELSE ""
      ordered == SelectSeq(scene.options, LAMBDA o : o \in Range(best_actions))
  IN IF Len(best_actions) = 1 THEN [action |-> best_actions[1], rng |-> rng]
     ELSE IF tie # "" THEN [action |-> tie, rng |-> rng]
     ELSE IF ordered # <<>>
     THEN [action |-> ordered[1 + RandBelow(rng, Len(ordered))],
           rng |-> RngNext(rng)]
     ELSE [action |-> scene.options[1], rng |-> rng]

\* PolicyDrivenActor.choose_action; response is what _call_openai_json
\* returned (isdict FALSE stands for None).  ok is FALSE when the call raises.
PolicyChooseAction(profile, use_ai, api_key, flags, party, scene, actor_name, rng, response) ==
  LET actor == FindMember(party, actor_name)
      resolved == ResolvePolicy(profile, actor_name)
      choice == ChooseFromPolicy(flags, scene, actor, resolved.policy,
                                 profile.campaign, rng)
  IN IF ~resolved.ok THEN [ok |-> FALSE, action |-> "", rng |-> rng]
     ELSE IF ~use_ai \/ ~api_key \/ ~response.isdict
     THEN [ok |-> TRUE, action |-> choice.action, rng |-> choice.rng]
     ELSE [ok |-> TRUE,
           action |-> IF response.isstr /\ response.action \in Range(scene.options)
                      THEN response.action ELSE choice.action,
           rng |-> choice.rng]

\* ------------------------------------------------------------------- state
VARIABLES
  cfg,            \* how the engine was constructed: collaborators, seed, max_turns
  start,          \* the CampaignState handed to the run
  campaign,       \* the live CampaignState
  pc,             \* position of the run: init, head, char, validate, exit, done, raised
  turn_number,    \* loop variable of SessionEngine.run
  idx,            \* position in campaign.party of the inner loop
  scene,          \* the Scene of the current turn
  intent,         \* the intent under validation
  intents,        \* intents of the current turn
  outcomes,       \* outcomes of the current turn
  turns,          \* turn_results
  result,         \* the returned SessionResult
  rngs,           \* generator states of ruleset, director and actor
  runNo,          \* 1, or 2 for the repeated invocation with the same seed
  first,          \* log and hp at the end of invocation 1
  directorCalls,  \* build_scene calls of this invocation
  resolveCall     \* the latest resolve_intent call and the scene it was made in

VARIABLES
  manifest,       \* manifest.json of the campaign id
  sessionFiles,   \* sessions/<session_id>.json, by session id
  latestState,    \* latest_state.json
  ledgerPc,       \* position inside record_session: idle, loaded, written, saved
  call,           \* arguments and locals of the record_session call in progress
  recorded,       \* the SessionResults of the completed record_session calls
  ensureCalls     \* number of ensure_ledger calls that have returned

VARIABLES
  chooseIn,       \* arguments of a PolicyDrivenActor.choose_action call
  chooseOut,      \* what the call returned, or that it raised
  chooseAgain     \* what a second actor with the same generator state returned

VARIABLES
  opIn,           \* arguments of one resolve_intent or build_scene call
  opOut           \* what that call returned

VARIABLES
  mainRuns        \* main's loop over --runs: the mode and the results list

VARIABLES
  hero,           \* an rpg_play Character and the latest call made on it
  combat,         \* a CampaignSimulator.simulate_combat call in progress
  progress        \* an rpg_automation Campaign and the latest call made on it

ledgerVars ==
  <<manifest, sessionFiles, latestState, ledgerPc, call, recorded, ensureCalls>>
chooseVars == <<chooseIn, chooseOut, chooseAgain>>
opVars == <<opIn, opOut>>
mainVars == <<mainRuns>>
playVars == <<hero, combat, progress>>

sessionVars == <<cfg, start, campaign, pc, turn_number, idx, scene, intent,
                 intents, outcomes, turns, result, rngs, runNo, first,
                 directorCalls, resolveCall>>

\* ------------------------------------------------------------ the campaign
Roster ==
  <<[name |-> "Aria", char_class |-> {"fighter"}, role_text |-> {"face"},
     background |-> TRUE],
    [name |-> "Borin", char_class |-> {"wizard"}, role_text |-> {},
     background |-> FALSE],
    [name |-> "Cyra", char_class |-> {}, role_text |-> {},
     background |-> TRUE],
    [name |-> "Dain", char_class |-> {"ranger", "rogue"}, role_text |-> {"diplomat"},
     background |-> FALSE]>>

Member(i, hp) ==
  [name |-> Roster[i].name, hp |-> hp, char_class |-> Roster[i].char_class,
   role_text |-> Roster[i].role_text, background |-> Roster[i].background]

Parties ==
  UNION {{[i \in 1..n |-> Member(i, h[i])] : h \in [1..n -> 0..MaxHp]} :
         n \in 0..MaxParty}

Campaign(party, encounters) ==
  [setting_name |-> "Ashfall", turn_index |-> 0, party |-> party,
   encounters |-> encounters, flags |-> EmptyMap, log |-> <<>>]

Names(party) == {party[i].name : i \in DOMAIN party}

LogLine(turn, actor, text, roll, item) ==
  [turn |-> turn, actor |-> actor, text |-> text, roll |-> roll, item |-> item]

\* SessionEngine._apply_outcome
ApplyOutcomeUnclamped(c, outcome) ==
  [c EXCEPT
     !.party = [i \in DOMAIN c.party |->
                  IF c.party[i].name \in DOMAIN outcome.hp_delta
                  THEN [c.party[i] EXCEPT
                          !.hp = c.party[i].hp + outcome.hp_delta[c.party[i].name]]
                  ELSE c.party[i]],
     !.flags = DictUpdate(c.flags, outcome.flag_updates)]
ApplyOutcomeReplacingFlags(c, outcome) ==
  [c EXCEPT
     !.party = [i \in DOMAIN c.party |->
                  IF c.party[i].name \in DOMAIN outcome.hp_delta
                  THEN LET hp == c.party[i].hp + outcome.hp_delta[c.party[i].name]
                       IN [c.party[i] EXCEPT !.hp = IF hp > 0 THEN hp ELSE 0]
                  ELSE c.party[i]],
     !.flags = outcome.flag_updates]
ApplyOutcomeHpOnly(c, outcome) ==
  [c EXCEPT
     !.party = [i \in DOMAIN c.party |->
                  IF c.party[i].name \in DOMAIN outcome.hp_delta
                  THEN LET hp == c.party[i].hp + outcome.hp_delta[c.party[i].name]
                       IN [c.party[i] EXCEPT !.hp = IF hp > 0 THEN hp ELSE 0]
                  ELSE c.party[i]]]
ApplyOutcomeToAll(c, outcome) ==
  [c EXCEPT
     !.party = [i \in DOMAIN c.party |->
                  IF outcome.actor_name \in DOMAIN outcome.hp_delta
                  THEN LET hp == c.party[i].hp + outcome.hp_delta[outcome.actor_name]
                       IN [c.party[i] EXCEPT !.hp = IF hp > 0 THEN hp ELSE 0]
                  ELSE c.party[i]],
     !.flags = DictUpdate(c.flags, outcome.flag_updates)]
ApplyOutcome(c, outcome) ==
  [c EXCEPT
     !.party = [i \in DOMAIN c.party |->
                  IF c.party[i].name \in DOMAIN outcome.hp_delta
                  THEN LET hp == c.party[i].hp + outcome.hp_delta[c.party[i].name]
                       IN [c.party[i] EXCEPT !.hp = IF hp > 0 THEN hp ELSE 0]
                  ELSE c.party[i]],
     !.flags = DictUpdate(c.flags, outcome.flag_updates)]

\* SessionEngine._all_party_defeated
AllPartyDefeated(c) == \A i \in DOMAIN c.party : c.party[i].hp <= 0

\* ------------------------------------------------ collaborators' replies
\* The collaborators outside the engine (the model behind AIDirector and
\* PolicyDrivenActor, the client of LLMActorAdapter, a custom ruleset) are
\* fixed when a run is set up: the director's model gives one answer per
\* run, the others answer each character the same way throughout a run.
NoReply == [isdict |-> FALSE, prompt_ok |-> FALSE, islist |-> FALSE, options |-> <<>>]
Raw(token) == [isstr |-> TRUE, token |-> token]

\* what the model behind AIDirector may answer
AiSceneReplies ==
  {NoReply,
   [isdict |-> TRUE, prompt_ok |-> TRUE, islist |-> TRUE,
    options |-> <<Raw("rest"), Raw("attack"), Raw("dance"), Raw("rest")>>],
   [isdict |-> TRUE, prompt_ok |-> FALSE, islist |-> FALSE, options |-> <<>>]}

NoActorReply == [isdict |-> FALSE, isstr |-> FALSE, action |-> ""]

\* what the model behind PolicyDrivenActor answers during a run
AiActorRunReplies ==
  {NoActorReply, [isdict |-> TRUE, isstr |-> TRUE, action |-> "attack"]}

\* what the model behind PolicyDrivenActor may answer
AiActorReplies ==
  {NoActorReply,
   [isdict |-> TRUE, isstr |-> TRUE, action |-> "attack"],
   [isdict |-> TRUE, isstr |-> TRUE, action |-> "dance"],
   [isdict |-> TRUE, isstr |-> FALSE, action |-> ""]}

\* what the client of LLMActorAdapter may answer
LlmReplies ==
  {[has_action |-> FALSE, action |-> ""],
   [has_action |-> TRUE, action |-> "attack"],
   [has_action |-> TRUE, action |-> "dance"]}

\* outcomes of the custom ruleset: hp deltas of any size, for any names
CustomKinds == {"strike", "blast", "heal"}

CustomOutcome(kind, party, actor) ==
  Outcome(actor, TRUE, kind, 0, "",
          CASE kind = "strike" -> (actor :> -3)
            [] kind = "blast" -> [n \in Names(party) \cup {"Nobody"} |-> -1]
            [] OTHER -> [n \in Names(party) |-> 2],
          EmptyMap)

\* --------------------------------------------------------------- setups
BoldProfile ==
  [campaign |-> [preferred_actions |-> List(<<"investigate", "dance">>),
                 avoid_actions |-> MissingList],
   default |-> [EmptyPolicy EXCEPT !.priorities = Dict(("attack" :> Num(400)))],
   characters |-> ("Borin" :> [isdict |-> TRUE,
                               policy |-> [EmptyPolicy EXCEPT
                                             !.priorities = Dict(("investigate" :> Num(-35))),
                                             !.caution = Num(50)]])]

Setup(ruleset, base, director_ai, actor, actor_ai, api_key, guidance, chunks, harness, encounters, profile) ==
  [ruleset |-> ruleset, base |-> base, director_ai |-> director_ai,
   actor |-> actor, actor_ai |-> actor_ai, api_key |-> api_key,
   guidance |-> guidance, chunks |-> chunks, harness |-> harness,
   encounters |-> encounters, profile |-> profile]

Encounters == <<"ambush", "riddle">>

Setups ==
  {Setup("generic", "simple", FALSE, "heuristic", FALSE, FALSE, FALSE, 0,
         "main", Encounters, EmptyProfile),
   Setup("generic", "simple", FALSE, "policy", FALSE, TRUE, TRUE, 2,
         "main", Encounters, EmptyProfile),
   Setup("generic", "simple", FALSE, "policy", FALSE, TRUE, TRUE, 2,
         "main", Encounters, BoldProfile),
   Setup("srd", "srd", TRUE, "policy", TRUE, FALSE, FALSE, 0,
         "main", Encounters, EmptyProfile),
   Setup("srd", "srd", TRUE, "policy", TRUE, FALSE, FALSE, 0,
         "main", Encounters, BoldProfile),
   Setup("generic", "simple", TRUE, "policy", TRUE, TRUE, FALSE, 0,
         "main", Encounters, BoldProfile),
   Setup("generic", "simple", TRUE, "llm", FALSE, TRUE, FALSE, 0,
         "direct", Encounters, EmptyProfile),
   Setup("custom", "simple", FALSE, "heuristic", FALSE, FALSE, FALSE, 0,
         "direct", <<>>, EmptyProfile)}

DirectorUsesModel == cfg.director_ai /\ cfg.api_key
ActorUsesModel == cfg.actor = "policy" /\ cfg.actor_ai /\ cfg.api_key

\* seeded collaborators only: nothing outside (seed, campaign, turns) is read
Seeded ==
  /\ cfg.ruleset \in {"generic", "srd"}
  /\ cfg.actor \in {"heuristic", "policy"}
  /\ ~DirectorUsesModel
  /\ ~ActorUsesModel

NoScene == Scene(Prompt("", <<>>, 0, FALSE, ""), <<>>)
NoIntent == Intent("", "")
NoResult == [returned |-> FALSE, setting_name |-> "", total_turns |-> 0, turns |-> <<>>]
NoFirst == [log |-> <<>>, hp |-> <<>>, total_turns |-> 0]
NoResolve == [called |-> FALSE, action |-> "", options |-> <<>>]

\* the seed is an argument of the seeded collaborators only
SeedsOf(setup) == IF setup.ruleset = "custom" THEN {0} ELSE 0..MaxSeed

InitSession ==
  /\ \E s \in Setups, t \in 0..MaxTurns, party \in Parties :
       /\ start = Campaign(party, s.encounters)
       /\ \E seed \in SeedsOf(s),
             scene_reply \in (IF s.director_ai /\ s.api_key
                              THEN (IF s.actor = "llm"
                                    THEN AiSceneReplies \ {NoReply}
                                    ELSE AiSceneReplies)
                              ELSE {NoReply}),
             llm \in [Names(party) -> IF s.actor = "llm" THEN LlmReplies
                                      ELSE {[has_action |-> FALSE, action |-> ""]}],
             ai \in [Names(party) ->
                       IF s.actor = "policy" /\ s.actor_ai /\ s.api_key
                       THEN AiActorRunReplies ELSE {NoActorReply}],
             custom \in [Names(party) -> IF s.ruleset = "custom" THEN CustomKinds
                                         ELSE {"heal"}] :
            cfg = [max_turns |-> t, seed |-> seed, scene_reply |-> scene_reply,
                   llm_replies |-> llm, ai_replies |-> ai,
                   custom_outcomes |-> custom] @@ s
  /\ campaign = start
  /\ pc = "init"
  /\ turn_number = 0
  /\ idx = 0
  /\ scene = NoScene
  /\ intent = NoIntent
  /\ intents = <<>>
  /\ outcomes = <<>>
  /\ turns = <<>>
  /\ result = NoResult
  /\ rngs = [rules |-> 1, director |-> 1, actor |-> 1]
  /\ runNo = 1
  /\ first = NoFirst
  /\ directorCalls = 0
  /\ resolveCall = NoResolve

\* ------------------------------------------------------ SessionEngine.run
\* run_single of main.py: wipes the log, builds seeded collaborators with
\* the run's seed, records the mode flags, then enters SessionEngine.run
RunSingleSharedRng ==
  /\ pc = "init"
  /\ cfg.harness = "main"
  /\ campaign' = [campaign EXCEPT
                    !.log = <<>>,
                    !.flags = DictUpdate(
                                DictUpdate(campaign.flags,
                                           IF cfg.ruleset = "srd"
                                           THEN ("srd_summary" :> "srd")
                                           ELSE EmptyMap),
                                ("ai_mode" :> cfg.actor))]
  /\ rngs' = rngs
  /\ turns' = <<>>
  /\ turn_number' = 1
  /\ pc' = "head"
  /\ UNCHANGED <<cfg, start, idx, scene, intent, intents, outcomes, result,
                 runNo, first, directorCalls, resolveCall>>
  /\ UNCHANGED <<ledgerVars, chooseVars, opVars, mainVars, playVars>>
RunSingle ==
  /\ pc = "init"
  /\ cfg.harness = "main"
  /\ campaign' = [campaign EXCEPT
                    !.log = <<>>,
                    !.flags = DictUpdate(
                                DictUpdate(campaign.flags,
                                           IF cfg.ruleset = "srd"
                                           THEN ("srd_summary" :> "srd")
                                           ELSE EmptyMap),
                                ("ai_mode" :> cfg.actor))]
  /\ rngs' = [rules |-> SeedRng(cfg.seed), director |-> SeedRng(cfg.seed),
              actor |-> SeedRng(cfg.seed)]
  /\ turns' = <<>>
  /\ turn_number' = 1
  /\ pc' = "head"
  /\ UNCHANGED <<cfg, start, idx, scene, intent, intents, outcomes, result,
                 runNo, first, directorCalls, resolveCall>>
  /\ UNCHANGED <<ledgerVars, chooseVars, opVars, mainVars, playVars>>

\* an engine built by its caller from its own collaborators (a custom
\* ruleset, LLMActorAdapter) and run on the campaign as it is
RunDirect ==
  /\ pc = "init"
  /\ cfg.harness = "direct"
  /\ rngs' = [rules |-> SeedRng(cfg.seed), director |-> SeedRng(cfg.seed),
              actor |-> SeedRng(cfg.seed)]
  /\ turns' = <<>>
  /\ turn_number' = 1
  /\ pc' = "head"
  /\ UNCHANGED <<cfg, start, campaign, idx, scene, intent, intents, outcomes,
                 result, runNo, first, directorCalls, resolveCall>>
  /\ UNCHANGED <<ledgerVars, chooseVars, opVars, mainVars, playVars>>

\* for turn_number in range(1, max_turns + 1)
InRangeShort(turn, max_turns) == turn < max_turns
InRange(turn, max_turns) == turn <= max_turns

\* top of the for loop: set turn_index, build the turn's scene
BeginTurn ==
  /\ pc = "head"
  /\ InRange(turn_number, cfg.max_turns)
  /\ LET c == [campaign EXCEPT !.turn_index = turn_number]
         fb == FallbackBuildScene(cfg.base, c, cfg.chunks, rngs.director)
     IN /\ campaign' = c
        /\ rngs' = [rngs EXCEPT !.director = fb.rng]
        /\ scene' = AiBuildScene(fb.scene, cfg.director_ai, cfg.api_key,
                                 cfg.guidance, cfg.scene_reply)
  /\ intents' = <<>>
  /\ outcomes' = <<>>
  /\ idx' = 1
  /\ pc' = "char"
  /\ directorCalls' = directorCalls + 1
  /\ UNCHANGED <<cfg, start, turn_number, intent, turns, result, runNo, first,
                 resolveCall>>
  /\ UNCHANGED <<ledgerVars, chooseVars, opVars, mainVars, playVars>>

\* if character.hp <= 0: continue
SkipAnyone ==
  /\ pc = "char"
  /\ idx <= Len(campaign.party)
  /\ idx' = idx + 1
  /\ UNCHANGED <<cfg, start, campaign, pc, turn_number, scene, intent, intents,
                 outcomes, turns, result, rngs, runNo, first, directorCalls,
                 resolveCall>>
  /\ UNCHANGED <<ledgerVars, chooseVars, opVars, mainVars, playVars>>
SkipDefeated ==
  /\ pc = "char"
  /\ idx <= Len(campaign.party)
  /\ campaign.party[idx].hp <= 0
  /\ idx' = idx + 1
  /\ UNCHANGED <<cfg, start, campaign, pc, turn_number, scene, intent, intents,
                 outcomes, turns, result, rngs, runNo, first, directorCalls,
                 resolveCall>>
  /\ UNCHANGED <<ledgerVars, chooseVars, opVars, mainVars, playVars>>

\* intent = self.actor.choose_action(campaign, scene, character.name)
ChooseAction ==
  /\ pc = "char"
  /\ idx <= Len(campaign.party)
  /\ campaign.party[idx].hp > 0
  /\ LET name == campaign.party[idx].name
     IN CASE cfg.actor = "heuristic" ->
               /\ intent' = Intent(name, HeuristicChoose(campaign, scene, name))
               /\ pc' = "validate"
               /\ rngs' = rngs
          [] cfg.actor = "llm" ->
               /\ intent' = Intent(name, LlmChoose(cfg.llm_replies[name]))
               /\ pc' = "validate"
               /\ rngs' = rngs
          [] OTHER ->
               LET r == PolicyChooseAction(cfg.profile, cfg.actor_ai,
                                           cfg.api_key, campaign.flags,
                                           campaign.party, scene, name,
                                           rngs.actor, cfg.ai_replies[name])
               IN IF r.ok
                  THEN /\ intent' = Intent(name, r.action)
                       /\ pc' = "validate"
                       /\ rngs' = [rngs EXCEPT !.actor = r.rng]
                  ELSE /\ intent' = intent
                       /\ pc' = "raised"
                       /\ rngs' = rngs
  /\ UNCHANGED <<cfg, start, campaign, turn_number, idx, scene, intents,
                 outcomes, turns, result, runNo, first, directorCalls,
                 resolveCall>>
  /\ UNCHANGED <<ledgerVars, chooseVars, opVars, mainVars, playVars>>

\* validate_intent returned False: log the rejection and go on
RejectIntentAndRecord ==
  /\ pc = "validate"
  /\ ~ValidateIntent(cfg.ruleset, intent.action)
  /\ campaign' = [campaign EXCEPT
                    !.log = Append(@, LogLine(turn_number, intent.actor_name,
                                              "submitted invalid action", 0, ""))]
  /\ intents' = Append(intents, intent)
  /\ idx' = idx + 1
  /\ pc' = "char"
  /\ UNCHANGED <<cfg, start, turn_number, scene, intent, outcomes, turns,
                 result, rngs, runNo, first, directorCalls, resolveCall>>
  /\ UNCHANGED <<ledgerVars, chooseVars, opVars, mainVars, playVars>>
RejectIntent ==
  /\ pc = "validate"
  /\ ~ValidateIntent(cfg.ruleset, intent.action)
  /\ campaign' = [campaign EXCEPT
                    !.log = Append(@, LogLine(turn_number, intent.actor_name,
                                              "submitted invalid action", 0, ""))]
  /\ idx' = idx + 1
  /\ pc' = "char"
  /\ UNCHANGED <<cfg, start, turn_number, scene, intent, intents, outcomes,
                 turns, result, rngs, runNo, first, directorCalls, resolveCall>>
  /\ UNCHANGED <<ledgerVars, chooseVars, opVars, mainVars, playVars>>

\* resolve_intent, _apply_outcome, record intent and outcome, log the summary
ResolveIntent ==
  /\ pc = "validate"
  /\ ValidateIntent(cfg.ruleset, intent.action)
  /\ LET res == IF cfg.ruleset = "custom"
                THEN [outcome |-> CustomOutcome(cfg.custom_outcomes[intent.actor_name],
                                                campaign.party, intent.actor_name),
                      rng |-> rngs.rules]
                ELSE RulesetResolve(cfg.ruleset, intent.action,
                                    intent.actor_name, rngs.rules)
     IN
       /\ campaign' = [ApplyOutcome(campaign, res.outcome) EXCEPT
                         !.log = Append(@, LogLine(turn_number,
                                                   res.outcome.actor_name,
                                                   res.outcome.summary,
                                                   res.outcome.roll,
                                                   res.outcome.item))]
       /\ rngs' = [rngs EXCEPT !.rules = res.rng]
       /\ outcomes' = Append(outcomes, res.outcome)
  /\ intents' = Append(intents, intent)
  /\ resolveCall' = [called |-> TRUE, action |-> intent.action,
                     options |-> scene.options]
  /\ idx' = idx + 1
  /\ pc' = "char"
  /\ UNCHANGED <<cfg, start, turn_number, scene, intent, turns, result, runNo,
                 first, directorCalls>>
  /\ UNCHANGED <<ledgerVars, chooseVars, opVars, mainVars, playVars>>

TurnResultBlankPrompt ==
  [turn_index |-> turn_number, scene_prompt |-> NoScene.prompt,
   intents |-> intents, outcomes |-> outcomes]
TurnResult ==
  [turn_index |-> turn_number, scene_prompt |-> scene.prompt,
   intents |-> intents, outcomes |-> outcomes]

\* end of the turn: record the TurnResult, then the all-defeated check
EndTurnNoCheck ==
  /\ pc = "char"
  /\ idx > Len(campaign.party)
  /\ turns' = Append(turns, TurnResult)
  /\ turn_number' = turn_number + 1
  /\ pc' = "head"
  /\ UNCHANGED <<cfg, start, campaign, idx, scene, intent, intents, outcomes,
                 result, rngs, runNo, first, directorCalls, resolveCall>>
  /\ UNCHANGED <<ledgerVars, chooseVars, opVars, mainVars, playVars>>
EndTurn ==
  /\ pc = "char"
  /\ idx > Len(campaign.party)
  /\ turns' = Append(turns, TurnResult)
  /\ IF AllPartyDefeated(campaign)
     THEN /\ campaign' = [campaign EXCEPT
                            !.log = Append(@, LogLine(0, "",
                                     "Session ended: all party members defeated",
                                     0, ""))]
          /\ pc' = "exit"
          /\ turn_number' = turn_number
     ELSE /\ campaign' = campaign
          /\ pc' = "head"
          /\ turn_number' = turn_number + 1
  /\ UNCHANGED <<cfg, start, idx, scene, intent, intents, outcomes, result,
                 rngs, runNo, first, directorCalls, resolveCall>>
  /\ UNCHANGED <<ledgerVars, chooseVars, opVars, mainVars, playVars>>

\* return SessionResult(...); final_state is the live campaign object
Return ==
  /\ \/ pc = "exit"
     \/ pc = "head" /\ ~InRange(turn_number, cfg.max_turns)
  /\ result' = [returned |-> TRUE, setting_name |-> campaign.setting_name,
                total_turns |-> campaign.turn_index, turns |-> turns]
  /\ pc' = "done"
  /\ UNCHANGED <<cfg, start, campaign, turn_number, idx, scene, intent,
                 intents, outcomes, turns, rngs, runNo, first, directorCalls,
                 resolveCall>>
  /\ UNCHANGED <<ledgerVars, chooseVars, opVars, mainVars, playVars>>

PartyHp(c) == [i \in DOMAIN c.party |-> c.party[i].hp]

\* a second, independent invocation from an equal campaign state with the
\* same seed and max_turns
Rerun ==
  /\ pc = "done"
  /\ runNo = 1
  /\ Seeded
  /\ first' = [log |-> campaign.log, hp |-> PartyHp(campaign),
               total_turns |-> result.total_turns]
  /\ runNo' = 2
  /\ campaign' = start
  /\ pc' = "init"
  /\ turn_number' = 0
  /\ idx' = 0
  /\ scene' = NoScene
  /\ intent' = NoIntent
  /\ intents' = <<>>
  /\ outcomes' = <<>>
  /\ turns' = <<>>
  /\ result' = NoResult
  /\ directorCalls' = 0
  /\ resolveCall' = NoResolve
  /\ UNCHANGED <<cfg, start, rngs>>
  /\ UNCHANGED <<ledgerVars, chooseVars, opVars, mainVars, playVars>>

NextSession ==
  \/ RunSingle
  \/ RunDirect
  \/ BeginTurn
  \/ SkipDefeated
  \/ ChooseAction
  \/ RejectIntent
  \/ ResolveIntent
  \/ EndTurn
  \/ Return
  \/ Rerun

\* ------------------------------------------------------------- the ledger
\* decimal digits of n, most significant first
RECURSIVE Decimal(_)
Decimal(n) == IF n < 10 THEN <<n>> ELSE Append(Decimal(n \div 10), n % 10)

RECURSIVE ZeroPad(_, _)
ZeroPad(digits, width) ==
  IF Len(digits) >= width THEN digits ELSE ZeroPad(<<0>> \o digits, width)

\* f"session_{next_index:04d}"
SessionId(next_index) == <<"session_">> \o ZeroPad(Decimal(next_index), 4)

\* dataclasses.asdict of a CampaignState
StateToDict(c) ==
  [setting_name |-> c.setting_name,
   turn_index |-> c.turn_index,
   party |-> [i \in DOMAIN c.party |->
                [name |-> c.party[i].name, hp |-> c.party[i].hp,
                 char_class |-> c.party[i].char_class,
                 role_text |-> c.party[i].role_text,
                 background |-> c.party[i].background]],
   encounters |-> c.encounters,
   flags |-> c.flags,
   log |-> c.log]

\* SessionResult.to_dict
ResultToDict(r) ==
  [setting_name |-> r.setting_name, total_turns |-> r.total_turns,
   final_state |-> StateToDict(r.final_state), turns |-> r.turns]

NoManifest == [exists |-> FALSE, campaign_id |-> "", session_count |-> 0,
               sessions |-> <<>>, updated |-> FALSE]
NoLatest == [exists |-> FALSE, state |-> StateToDict(Campaign(<<>>, <<>>))]
NoCall == [manifest |-> NoManifest, next_index |-> 0, session_id |-> <<>>,
           result |-> ResultToDict([setting_name |-> "", total_turns |-> 0,
                                    final_state |-> Campaign(<<>>, <<>>),
                                    turns |-> <<>>]),
           run_seed |-> 0, turns |-> 0]

\* the SessionResults handed to record_session
LedgerResults ==
  {[setting_name |-> "Ashfall", total_turns |-> t,
    final_state |-> [Campaign(<<Member(1, 2 - t)>>, Encounters) EXCEPT
                       !.turn_index = t],
    turns |-> <<>>] : t \in 1..2}

\* ensure_ledger
EnsureLedgerReset ==
  /\ ledgerPc = "idle"
  /\ ensureCalls < MaxEnsures
  /\ manifest' = [exists |-> TRUE, campaign_id |-> "default",
                  session_count |-> 0, sessions |-> <<>>, updated |-> FALSE]
  /\ ensureCalls' = ensureCalls + 1
  /\ UNCHANGED <<sessionFiles, latestState, ledgerPc, call, recorded>>
  /\ UNCHANGED <<sessionVars, chooseVars, opVars, mainVars, playVars>>
EnsureLedger ==
  /\ ledgerPc = "idle"
  /\ ensureCalls < MaxEnsures
  /\ manifest' = IF ~manifest.exists
                 THEN [exists |-> TRUE, campaign_id |-> "default",
                       session_count |-> 0, sessions |-> <<>>,
                       updated |-> FALSE]
                 ELSE manifest
  /\ ensureCalls' = ensureCalls + 1
  /\ UNCHANGED <<sessionFiles, latestState, ledgerPc, call, recorded>>
  /\ UNCHANGED <<sessionVars, chooseVars, opVars, mainVars, playVars>>

\* record_session, lines 64-66: load the manifest, number the session
RecordLoadReuseIndex ==
  /\ ledgerPc = "idle"
  /\ manifest.exists
  /\ Len(recorded) < MaxSessions
  /\ \E r \in LedgerResults, seed \in 0..1 :
       call' = [manifest |-> manifest,
                next_index |-> IF manifest.session_count = 0 THEN 1
                               ELSE manifest.session_count,
                session_id |-> SessionId(IF manifest.session_count = 0 THEN 1
                                         ELSE manifest.session_count),
                result |-> ResultToDict(r),
                run_seed |-> seed, turns |-> r.total_turns]
  /\ ledgerPc' = "loaded"
  /\ UNCHANGED <<manifest, sessionFiles, latestState, recorded, ensureCalls>>
  /\ UNCHANGED <<sessionVars, chooseVars, opVars, mainVars, playVars>>
RecordLoad ==
  /\ ledgerPc = "idle"
  /\ manifest.exists
  /\ Len(recorded) < MaxSessions
  /\ \E r \in LedgerResults, seed \in 0..1 :
       call' = [manifest |-> manifest,
                next_index |-> Get(manifest, "session_count", 0) + 1,
                session_id |-> SessionId(Get(manifest, "session_count", 0) + 1),
                result |-> ResultToDict(r),
                run_seed |-> seed, turns |-> r.total_turns]
  /\ ledgerPc' = "loaded"
  /\ UNCHANGED <<manifest, sessionFiles, latestState, recorded, ensureCalls>>
  /\ UNCHANGED <<sessionVars, chooseVars, opVars, mainVars, playVars>>

\* lines 68-78: write sessions/<session_id>.json
RecordWriteSession ==
  /\ ledgerPc = "loaded"
  /\ sessionFiles' =
       (call.session_id :> [session_id |-> call.session_id,
                            seed |-> call.run_seed, turns |-> call.turns,
                            result |-> call.result]) @@ sessionFiles
  /\ ledgerPc' = "written"
  /\ UNCHANGED <<manifest, latestState, call, recorded, ensureCalls>>
  /\ UNCHANGED <<sessionVars, chooseVars, opVars, mainVars, playVars>>

\* line 79, save_latest_state: overwrite latest_state.json
RecordSaveLatestOnce ==
  /\ ledgerPc = "written"
  /\ latestState' = IF latestState.exists THEN latestState
                    ELSE [exists |-> TRUE, state |-> call.result.final_state]
  /\ ledgerPc' = "saved"
  /\ UNCHANGED <<manifest, sessionFiles, call, recorded, ensureCalls>>
  /\ UNCHANGED <<sessionVars, chooseVars, opVars, mainVars, playVars>>
RecordSaveLatest ==
  /\ ledgerPc = "written"
  /\ latestState' = [exists |-> TRUE, state |-> call.result.final_state]
  /\ ledgerPc' = "saved"
  /\ UNCHANGED <<manifest, sessionFiles, call, recorded, ensureCalls>>
  /\ UNCHANGED <<sessionVars, chooseVars, opVars, mainVars, playVars>>

\* lines 81-98: append the entry, bump session_count, rewrite the manifest
RecordWriteManifestAnew ==
  /\ ledgerPc = "saved"
  /\ manifest' = DictUpdate(call.manifest,
                            [sessions |-> <<[session_id |-> call.session_id,
                                             seed |-> call.run_seed,
                                             turns |-> call.turns,
                                             path |-> call.session_id]>>,
                             session_count |-> call.next_index,
                             updated |-> TRUE])
  /\ recorded' = Append(recorded, call.result)
  /\ call' = NoCall
  /\ ledgerPc' = "idle"
  /\ UNCHANGED <<sessionFiles, latestState, ensureCalls>>
  /\ UNCHANGED <<sessionVars, chooseVars, opVars, mainVars, playVars>>
RecordWriteManifest ==
  /\ ledgerPc = "saved"
  /\ manifest' = DictUpdate(call.manifest,
                            [sessions |-> Append(Get(call.manifest, "sessions", <<>>),
                                                 [session_id |-> call.session_id,
                                                  seed |-> call.run_seed,
                                                  turns |-> call.turns,
                                                  path |-> call.session_id]),
                             session_count |-> call.next_index,
                             updated |-> TRUE])
  /\ recorded' = Append(recorded, call.result)
  /\ call' = NoCall
  /\ ledgerPc' = "idle"
  /\ UNCHANGED <<sessionFiles, latestState, ensureCalls>>
  /\ UNCHANGED <<sessionVars, chooseVars, opVars, mainVars, playVars>>

InitLedger ==
  /\ manifest = NoManifest
  /\ sessionFiles = [x \in {} |-> 0]
  /\ latestState = NoLatest
  /\ ledgerPc = "idle"
  /\ call = NoCall
  /\ recorded = <<>>
  /\ ensureCalls = 0

NextLedger ==
  \/ EnsureLedger
  \/ RecordLoad
  \/ RecordWriteSession
  \/ RecordSaveLatest
  \/ RecordWriteManifest

\* ------------------------------------------- main.py with --use-ledger
\* _parse_character: name and hp are required, the rest has defaults
ParseCharacter(character) ==
  [name |-> character.name, hp |-> character.hp,
   char_class |-> Get(character, "char_class", {}),
   role_text |-> Get(character, "role_text", {}),
   background |-> Get(character, "background", FALSE)]

\* campaign_state_from_dict
CampaignStateFromDict(data) ==
  LET members == Get(data, "party", <<>>)
  IN [setting_name |-> Get(data, "setting_name", "Unknown Setting"),
      turn_index |-> Get(data, "turn_index", 0),
      party |-> [i \in DOMAIN members |-> ParseCharacter(members[i])],
      encounters |-> Get(data, "encounters", <<>>),
      flags |-> Get(data, "flags", EmptyMap),
      log |-> Get(data, "log", <<>>)]

\* main, lines 202-203: the first process creates the ledger
MainEnsureLedger ==
  /\ pc = "init"
  /\ ~manifest.exists
  /\ EnsureLedger

\* main, lines 228-242: run_single once the ledger is there
MainRunSingle ==
  /\ manifest.exists
  /\ RunSingle

\* main, lines 243-255: record_session(result) run to its end; final_state
\* is the campaign object the run worked on
MainRecordSession ==
  /\ pc = "done"
  /\ ledgerPc = "idle"
  /\ manifest.exists
  /\ LET r == ResultToDict([setting_name |-> result.setting_name,
                            total_turns |-> result.total_turns,
                            final_state |-> campaign,
                            turns |-> result.turns])
         next_index == manifest.session_count + 1
         session_id == SessionId(next_index)
     IN /\ sessionFiles' =
             (session_id :> [session_id |-> session_id, seed |-> cfg.seed,
                             turns |-> cfg.max_turns, result |-> r])
             @@ sessionFiles
        /\ latestState' = [exists |-> TRUE, state |-> r.final_state]
        /\ manifest' = [manifest EXCEPT
                          !.sessions = Append(@, [session_id |-> session_id,
                                                  seed |-> cfg.seed,
                                                  turns |-> cfg.max_turns,
                                                  path |-> session_id]),
                          !.session_count = next_index,
                          !.updated = TRUE]
        /\ recorded' = Append(recorded, r)
  /\ pc' = "recorded"
  /\ UNCHANGED <<ledgerPc, call, ensureCalls>>
  /\ UNCHANGED <<cfg, start, campaign, turn_number, idx, scene, intent,
                 intents, outcomes, turns, result, rngs, runNo, first,
                 directorCalls, resolveCall>>
  /\ UNCHANGED <<chooseVars, opVars, mainVars, playVars>>

\* main, lines 199-223, of a later process started with --use-ledger
\* --resume: ensure_ledger finds the manifest, latest_state.json exists and
\* is loaded through campaign_state_from_dict
MainResume ==
  /\ pc = "recorded"
  /\ runNo = 1
  /\ manifest.exists
  /\ latestState.exists
  /\ first' = [log |-> campaign.log, hp |-> PartyHp(campaign),
               total_turns |-> result.total_turns]
  /\ campaign' = CampaignStateFromDict(latestState.state)
  /\ start' = campaign'
  /\ runNo' = 2
  /\ pc' = "init"
  /\ turn_number' = 0
  /\ idx' = 0
  /\ scene' = NoScene
  /\ intent' = NoIntent
  /\ intents' = <<>>
  /\ outcomes' = <<>>
  /\ turns' = <<>>
  /\ result' = NoResult
  /\ directorCalls' = 0
  /\ resolveCall' = NoResolve
  /\ ensureCalls' = ensureCalls + 1
  /\ UNCHANGED <<cfg, rngs>>
  /\ UNCHANGED <<manifest, sessionFiles, latestState, ledgerPc, call, recorded>>
  /\ UNCHANGED <<chooseVars, opVars, mainVars, playVars>>

NextResume ==
  \/ MainEnsureLedger
  \/ MainRunSingle
  \/ BeginTurn
  \/ SkipDefeated
  \/ ChooseAction
  \/ ResolveIntent
  \/ EndTurn
  \/ Return
  \/ MainRecordSession
  \/ MainResume

\* ------------------------------------------------------ main with --runs 2
\* the CampaignState object the current run works on: with --use-ledger
\* every run gets campaign_current, which is the previous result's
\* final_state; without it every run gets a new deepcopy of campaign_base
LiveObject == IF mainRuns.use_ledger THEN 1 ELSE runNo

\* the CampaignState an object reference leads to now; an object no run
\* works on any more is as it was when its run returned
Deref(entry) == IF entry.object = LiveObject THEN campaign ELSE entry.at_return

InitRuns ==
  /\ InitSession
  /\ cfg.harness = "main"
  /\ Seeded
  /\ cfg.max_turns >= 1
  /\ \E use_ledger \in BOOLEAN :
       mainRuns = [use_ledger |-> use_ledger, results |-> <<>>]

\* main, lines 240-241, and the next iteration's lines 225-226:
\* results.append(result), campaign_current = result.final_state, and the
\* campaign of the next run with seed + run_index
MainNextRun ==
  /\ runNo = 1
  /\ pc = IF mainRuns.use_ledger THEN "recorded" ELSE "done"
  /\ mainRuns' = [mainRuns EXCEPT
                    !.results = Append(@, [total_turns |-> result.total_turns,
                                           turns |-> result.turns,
                                           object |-> LiveObject,
                                           at_return |-> campaign])]
  /\ campaign' = IF mainRuns.use_ledger THEN campaign ELSE start
  /\ cfg' = [cfg EXCEPT !.seed = cfg.seed + 1]
  /\ first' = [log |-> campaign.log, hp |-> PartyHp(campaign),
               total_turns |-> result.total_turns]
  /\ runNo' = 2
  /\ pc' = "init"
  /\ turn_number' = 0
  /\ idx' = 0
  /\ scene' = NoScene
  /\ intent' = NoIntent
  /\ intents' = <<>>
  /\ outcomes' = <<>>
  /\ turns' = <<>>
  /\ result' = NoResult
  /\ directorCalls' = 0
  /\ resolveCall' = NoResolve
  /\ UNCHANGED <<start, rngs>>
  /\ UNCHANGED <<ledgerVars, chooseVars, opVars, playVars>>

\* main with --use-ledger: lines 202-203, 228-242 and 247-255
RunsEnsureLedger == mainRuns.use_ledger /\ MainEnsureLedger
RunsRunSingleOnLedger == mainRuns.use_ledger /\ MainRunSingle
RunsRecordSession == mainRuns.use_ledger /\ MainRecordSession

\* main without --use-ledger: run_single on the deepcopy
RunsRunSingle == ~mainRuns.use_ledger /\ RunSingle

NextRuns ==
  \/ RunsEnsureLedger
  \/ RunsRunSingleOnLedger
  \/ RunsRunSingle
  \/ BeginTurn
  \/ SkipDefeated
  \/ ChooseAction
  \/ ResolveIntent
  \/ EndTurn
  \/ Return
  \/ RunsRecordSession
  \/ MainNextRun

\* --------------------------------------------- interrupted record_session
\* the process is stopped between two file writes of record_session: the
\* files stay as they are, the call's locals are gone
Interrupt ==
  /\ ledgerPc \in {"loaded", "written", "saved"}
  /\ ledgerPc' = "idle"
  /\ call' = NoCall
  /\ UNCHANGED <<manifest, sessionFiles, latestState, recorded, ensureCalls>>
  /\ UNCHANGED <<sessionVars, chooseVars, opVars, mainVars, playVars>>

NextCrash ==
  \/ NextLedger
  \/ Interrupt

\* ------------------------------------------------ damaged checkpoints
\* a JSON object without one of its keys
Without(data, key) == [k \in DOMAIN data \ {key} |-> data[k]]

\* the files of the ledger are rewritten outside the program between two
\* of its calls: the manifest loses session_count, or the snapshot loses
\* party or turn_index; _read_json returns whatever parses
Damage ==
  /\ ledgerPc = "idle"
  /\ pc = "idle"
  /\ recorded # <<>>
  /\ \/ /\ "session_count" \in DOMAIN manifest
        /\ manifest' = Without(manifest, "session_count")
        /\ UNCHANGED latestState
     \/ /\ \E key \in {"party", "turn_index"} :
             /\ key \in DOMAIN latestState.state
             /\ latestState' = [latestState EXCEPT !.state = Without(@, key)]
        /\ UNCHANGED manifest
  /\ UNCHANGED <<sessionFiles, ledgerPc, call, recorded, ensureCalls>>
  /\ UNCHANGED <<sessionVars, chooseVars, opVars, mainVars, playVars>>

\* main, lines 204-207: the resume path loads latest_state.json
LoadCheckpoint ==
  /\ ledgerPc = "idle"
  /\ pc = "idle"
  /\ manifest.exists
  /\ latestState.exists
  /\ campaign' = CampaignStateFromDict(latestState.state)
  /\ pc' = "resumed"
  /\ UNCHANGED <<cfg, start, turn_number, idx, scene, intent, intents,
                 outcomes, turns, result, rngs, runNo, first, directorCalls,
                 resolveCall>>
  /\ UNCHANGED <<ledgerVars, chooseVars, opVars, mainVars, playVars>>

NextDamaged ==
  \/ NextLedger
  \/ Damage
  \/ LoadCheckpoint

\* ----------------------------------- PolicyDrivenActor.choose_action calls
NanProfile ==
  [EmptyProfile EXCEPT
     !.default.priorities = Dict([o \in Range(SrdOptions) |-> NanEntry])]

TieBreakProfile ==
  [EmptyProfile EXCEPT
     !.default.priorities = Dict(("defend" :> Num(100)) @@ ("attack" :> BadEntry)),
     !.default.tie_breaker = List(<<"dance", "defend", "rest">>),
     !.default.caution = BadEntry,
     !.campaign.avoid_actions = BadList]

\* default priorities that are not a dict, under a character's priorities
BadDefaultProfile ==
  [EmptyProfile EXCEPT
     !.default.priorities = BadDict,
     !.characters = ("Aria" :> [isdict |-> TRUE,
                                policy |-> [EmptyPolicy EXCEPT
                                              !.priorities = Dict(("attack" :> Num(100)))]])]

\* a character entry that is not a dict
BadOverrideProfile ==
  [EmptyProfile EXCEPT
     !.characters = ("Aria" :> [isdict |-> FALSE, policy |-> EmptyPolicy])]

\* {"default": {"caution": 0.8}}
CautiousProfile == [EmptyProfile EXCEPT !.default.caution = Num(80)]

\* {"default": {"exploration": -2.0}}
IncuriousProfile == [EmptyProfile EXCEPT !.default.exploration = Num(-200)]

\* {"default": {"caution": true}}
BoolCautionProfile == [EmptyProfile EXCEPT !.default.caution = BoolEntry(TRUE)]

\* a default policy under two character entries: one overriding some
\* priorities, caution and tie_breaker, one whose priorities are not a dict
MergeProfile ==
  [EmptyProfile EXCEPT
     !.default = [priorities |-> Dict(("attack" :> Num(100)) @@ ("defend" :> Num(50))),
                  caution |-> Num(20), aggression |-> Num(70),
                  exploration |-> Missing, tie_breaker |-> List(<<"rest">>)],
     !.characters =
        ("Dain" :> [isdict |-> TRUE,
                    policy |-> [EmptyPolicy EXCEPT
                                  !.priorities = Dict(("attack" :> Num(-100))
                                                      @@ ("rest" :> Num(30))),
                                  !.caution = Num(90),
                                  !.tie_breaker = List(<<"defend", "attack">>)]])
        @@ ("Cyra" :> [isdict |-> TRUE,
                       policy |-> [EmptyPolicy EXCEPT !.priorities = BadDict]])]

ChooseProfiles ==
  {EmptyProfile, BoldProfile, NanProfile, TieBreakProfile, BadDefaultProfile,
   BadOverrideProfile, CautiousProfile, IncuriousProfile, BoolCautionProfile,
   MergeProfile}

\* option lists a director can offer (never empty, never repeating)
ChooseOptions ==
  {GenericOptions, SrdOptions, <<"rest", "attack">>, <<"defend">>,
   <<"exploit-mastery", "use-equipment", "negotiate">>}

NoChoice == [called |-> FALSE, ok |-> FALSE, action |-> "", rng |-> 0]

InitChoose ==
  /\ \E profile \in ChooseProfiles, options \in ChooseOptions,
        who \in 1..4, hp \in 1..4,
        discovery \in {"absent", "", "clue_discovered"},
        ai \in {<<FALSE, FALSE>>, <<TRUE, FALSE>>, <<TRUE, TRUE>>},
        seed \in 0..MaxSeed :
       \E response \in (IF ai[1] /\ ai[2] THEN AiActorReplies ELSE {NoActorReply}) :
         chooseIn = [profile |-> profile, scene |-> Scene(NoScene.prompt, options),
                     party |-> <<Member(who, hp)>>,
                     flags |-> IF discovery = "absent" THEN EmptyMap
                               ELSE ("latest_discovery" :> discovery),
                     use_ai |-> ai[1], api_key |-> ai[2],
                     response |-> response, rng |-> SeedRng(seed)]
  /\ chooseOut = NoChoice
  /\ chooseAgain = NoChoice

\* one call of PolicyDrivenActor.choose_action on the drawn arguments
ChooseCall ==
  /\ ~chooseOut.called
  /\ LET r == PolicyChooseAction(chooseIn.profile, chooseIn.use_ai,
                                 chooseIn.api_key, chooseIn.flags,
                                 chooseIn.party, chooseIn.scene,
                                 chooseIn.party[1].name, chooseIn.rng,
                                 chooseIn.response)
     IN chooseOut' = [called |-> TRUE, ok |-> r.ok, action |-> r.action,
                      rng |-> r.rng]
  /\ chooseIn' = [chooseIn EXCEPT
                    !.profile.default =
                       ResolvePolicy(chooseIn.profile, chooseIn.party[1].name).stored]
  /\ UNCHANGED chooseAgain
  /\ UNCHANGED <<sessionVars, ledgerVars, opVars, mainVars, playVars>>

\* the same call on the same actor again, whose generator has moved on
ChooseAgainContinuing ==
  /\ chooseOut.called
  /\ ~chooseAgain.called
  /\ LET r == PolicyChooseAction(chooseIn.profile, chooseIn.use_ai,
                                 chooseIn.api_key, chooseIn.flags,
                                 chooseIn.party, chooseIn.scene,
                                 chooseIn.party[1].name, chooseOut.rng,
                                 chooseIn.response)
     IN chooseAgain' = [called |-> TRUE, ok |-> r.ok, action |-> r.action,
                        rng |-> r.rng]
  /\ UNCHANGED <<chooseIn, chooseOut>>
  /\ UNCHANGED <<sessionVars, ledgerVars, opVars, mainVars, playVars>>

\* the same call on a second PolicyDrivenActor built with the same seed, so
\* with the generator state the first actor had before its call
ChooseAgain ==
  /\ chooseOut.called
  /\ ~chooseAgain.called
  /\ LET r == PolicyChooseAction(chooseIn.profile, chooseIn.use_ai,
                                 chooseIn.api_key, chooseIn.flags,
                                 chooseIn.party, chooseIn.scene,
                                 chooseIn.party[1].name, chooseIn.rng,
                                 chooseIn.response)
     IN chooseAgain' = [called |-> TRUE, ok |-> r.ok, action |-> r.action,
                        rng |-> r.rng]
  /\ UNCHANGED <<chooseIn, chooseOut>>
  /\ UNCHANGED <<sessionVars, ledgerVars, opVars, mainVars, playVars>>

NextChoose == ChooseCall \/ ChooseAgain

\* ------------------------------------------- single ruleset, director calls
\* every state of the generator
RngStates == 1..100

\* actions an intent can name: the seven of the vocabulary and one outside it
OpActions == SrdAllowed \cup {"dance"}

OpEncounters == {<<>>, <<"ambush">>, Encounters, <<"ambush", "riddle", "chase">>}

NoOp == [called |-> FALSE]

\* entries of the "options" value of a model response: tokens the rulesets
\* know, tokens they do not, a blank string and a value that is no string
ReplyEntries ==
  {Raw("rest"), Raw("attack"), Raw("use-equipment"), Raw("dance"), Raw(""),
   [isstr |-> FALSE, token |-> ""]}

\* ten distinct tokens, the ruleset's own after eight unknown ones
LongUnknownFirst ==
  <<Raw("dance"), Raw("flee"), Raw("sing"), Raw("hide"), Raw("pray"),
    Raw("trade"), Raw("climb"), Raw("swim"), Raw("rest"), Raw("attack")>>

\* ten entries, the ruleset's own first and twice
LongKnownFirst ==
  <<Raw("attack"), Raw("attack"), Raw("defend"), Raw("investigate"),
    Raw("negotiate"), Raw("rest"), Raw("use-equipment"),
    Raw("exploit-mastery"), Raw("dance"), Raw("flee")>>

\* what the model behind AIDirector may answer: nothing, a dict whose
\* options are no list, and dicts with option lists
AiOptionReplies ==
  {NoReply,
   [isdict |-> TRUE, prompt_ok |-> TRUE, islist |-> FALSE, options |-> <<>>]}
  \cup {[isdict |-> TRUE, prompt_ok |-> TRUE, islist |-> TRUE, options |-> o] :
          o \in {LongUnknownFirst, LongKnownFirst}
                   \cup UNION {[1..n -> ReplyEntries] : n \in 0..MaxReplyLen}}

InitOp ==
  /\ \/ \E ruleset \in {"generic", "srd"}, action \in OpActions,
            actor \in {"Aria", "Borin"}, rng \in RngStates :
          opIn = [op |-> "resolve", ruleset |-> ruleset, action |-> action,
                  actor |-> actor, rng |-> rng]
     \/ \E base \in {"simple", "srd"}, encounters \in OpEncounters,
            turn_index \in 1..MaxTurnIndex, chunks \in {0, 2},
            rng \in RngStates :
          opIn = [op |-> "build_scene", base |-> base,
                  campaign |-> [Campaign(<<Member(1, 1)>>, encounters)
                                  EXCEPT !.turn_index = turn_index],
                  chunks |-> chunks, rng |-> rng]
     \/ \E base \in {"simple", "srd"}, reply \in AiOptionReplies :
          opIn = [op |-> "ai_build_scene", base |-> base,
                  campaign |-> [Campaign(<<Member(1, 1)>>, Encounters)
                                  EXCEPT !.turn_index = 1],
                  reply |-> reply]
  /\ opOut = NoOp

\* SessionEngine's use of a ruleset for one intent: validate_intent, then
\* resolve_intent if the intent was accepted
ResolveCall ==
  /\ opIn.op = "resolve"
  /\ ~opOut.called
  /\ opOut' = IF ValidateIntent(opIn.ruleset, opIn.action)
              THEN LET r == RulesetResolve(opIn.ruleset, opIn.action,
                                           opIn.actor, opIn.rng)
                   IN [called |-> TRUE, valid |-> TRUE,
                       outcome |-> r.outcome, rng |-> r.rng]
              ELSE [called |-> TRUE, valid |-> FALSE]
  /\ UNCHANGED opIn
  /\ UNCHANGED <<sessionVars, ledgerVars, chooseVars, mainVars, playVars>>

\* one build_scene call of SimpleDirector or SRD2024Director; encounters is
\* campaign.encounters after the call, which only reads the list
BuildSceneCall ==
  /\ opIn.op = "build_scene"
  /\ ~opOut.called
  /\ LET r == FallbackBuildScene(opIn.base, opIn.campaign, opIn.chunks, opIn.rng)
     IN opOut' = [called |-> TRUE, scene |-> r.scene, rng |-> r.rng,
                  encounters |-> opIn.campaign.encounters]
  /\ UNCHANGED opIn
  /\ UNCHANGED <<sessionVars, ledgerVars, chooseVars, mainVars, playVars>>

\* one AIDirector.build_scene call with a model configured: the fallback
\* director's scene, then the model's response worked into it
AiBuildSceneCall ==
  /\ opIn.op = "ai_build_scene"
  /\ ~opOut.called
  /\ LET r == FallbackBuildScene(opIn.base, opIn.campaign, 0, 1)
     IN opOut' = [called |-> TRUE,
                  scene |-> AiBuildScene(r.scene, TRUE, TRUE, FALSE, opIn.reply),
                  fallback |-> r.scene]
  /\ UNCHANGED opIn
  /\ UNCHANGED <<sessionVars, ledgerVars, chooseVars, mainVars, playVars>>

NextOp == ResolveCall \/ BuildSceneCall \/ AiBuildSceneCall

\* --------------------------------------------------------- specifications
vars == <<sessionVars, ledgerVars, chooseVars, opVars, mainVars, playVars>>

\* a component that a specification does not exercise stays as constructed
IdleSession ==
  /\ cfg = [max_turns |-> 0, seed |-> 0, scene_reply |-> NoReply,
            llm_replies |-> EmptyMap, ai_replies |-> EmptyMap,
            custom_outcomes |-> EmptyMap] @@
           Setup("generic", "simple", FALSE, "heuristic", FALSE, FALSE, FALSE,
                 0, "main", <<>>, EmptyProfile)
  /\ start = Campaign(<<>>, <<>>)
  /\ campaign = start
  /\ pc = "idle"
  /\ turn_number = 0
  /\ idx = 0
  /\ scene = NoScene
  /\ intent = NoIntent
  /\ intents = <<>>
  /\ outcomes = <<>>
  /\ turns = <<>>
  /\ result = NoResult
  /\ rngs = [rules |-> 1, director |-> 1, actor |-> 1]
  /\ runNo = 1
  /\ first = NoFirst
  /\ directorCalls = 0
  /\ resolveCall = NoResolve

IdleChoose ==
  /\ chooseIn = [profile |-> EmptyProfile, scene |-> NoScene, party |-> <<>>,
                 flags |-> EmptyMap, use_ai |-> FALSE, api_key |-> FALSE,
                 response |-> NoActorReply, rng |-> 1]
  /\ chooseOut = [NoChoice EXCEPT !.called = TRUE]
  /\ chooseAgain = [NoChoice EXCEPT !.called = TRUE]

IdleOp ==
  /\ opIn = [op |-> "none"]
  /\ opOut = [called |-> TRUE]

IdleMain == mainRuns = [use_ledger |-> FALSE, results |-> <<>>]

\* ------------------------------------------------------ rpg_play Character
\* Character.__post_init__
PostInit(c) == IF c.current_hp > c.max_hp THEN [c EXCEPT !.current_hp = c.max_hp] ELSE c

\* Character.is_alive
IsAlive(c) == c.current_hp > 0

\* the mutant of Heal: current_hp + amount without the cap at max_hp
HealUncapped(c, amount) ==
  LET healing == IF amount < 0 THEN 0 ELSE amount
      old_hp == c.current_hp
      new_hp == c.current_hp + healing
  IN  [character |-> [c EXCEPT !.current_hp = new_hp],
       returned |-> new_hp - old_hp]

\* Character.take_damage: the character afterwards and the returned value
TakeDamage(c, damage) ==
  LET taken == IF damage < 0 THEN 0 ELSE damage
      hp == c.current_hp - taken
  IN  [character |-> [c EXCEPT !.current_hp = IF hp < 0 THEN 0 ELSE hp],
       returned |-> taken]

\* Character.heal: the character afterwards and the returned value
Heal(c, amount) ==
  LET healing == IF amount < 0 THEN 0 ELSE amount
      old_hp == c.current_hp
      new_hp == IF c.current_hp + healing < c.max_hp
                  THEN c.current_hp + healing ELSE c.max_hp
  IN  [character |-> [c EXCEPT !.current_hp = new_hp],
       returned |-> new_hp - old_hp]

\* the integer arguments of take_damage and heal
Amounts == (0 - MaxAmount)..MaxAmount

\* Character(max_hp=..., current_hp=...) with 0 <= current_hp
InitHero ==
  \E max_hp \in 0..MaxPlayHp, current_hp \in 0..(MaxPlayHp + 1) :
    LET c == PostInit([name |-> "Hero", max_hp |-> max_hp,
                       current_hp |-> current_hp, potions |-> 0, ai |-> FALSE])
    IN  hero = [character |-> c, op |-> "create", arg |-> current_hp,
                before |-> c.current_hp, returned |-> 0]

IdleHero ==
  hero = [character |-> [name |-> "Hero", max_hp |-> 0, current_hp |-> 0,
                         potions |-> 0, ai |-> FALSE],
          op |-> "none", arg |-> 0, before |-> 0, returned |-> 0]

HeroTakeDamage ==
  /\ \E damage \in Amounts :
       LET done == TakeDamage(hero.character, damage)
       IN  hero' = [character |-> done.character, op |-> "take_damage",
                    arg |-> damage, before |-> hero.character.current_hp,
                    returned |-> done.returned]
  /\ UNCHANGED <<sessionVars, ledgerVars, chooseVars, opVars, mainVars, combat, progress>>

HeroHeal ==
  /\ \E amount \in Amounts :
       LET done == Heal(hero.character, amount)
       IN  hero' = [character |-> done.character, op |-> "heal",
                    arg |-> amount, before |-> hero.character.current_hp,
                    returned |-> done.returned]
  /\ UNCHANGED <<sessionVars, ledgerVars, chooseVars, opVars, mainVars, combat, progress>>

NextCharacter == HeroTakeDamage \/ HeroHeal

\* ------------------------------------- rpg_play CampaignSimulator combat
\* Stats.get_modifier('strength')
StrengthModifier(c) == (c.strength - 10) \div 2

\* AIController.decide_action, the healing test: current_hp below
\* max_hp * 0.3. For max_hp below 10 the product is no integer, so the
\* comparison of the float with the integer hp is the exact one.
NeedsHealing(c) == 10 * c.current_hp < 3 * c.max_hp

\* Character.remove_item("healing_potion", 1): whether it succeeded and the
\* character afterwards
RemovePotion(c) ==
  IF c.potions < 1 THEN [ok |-> FALSE, character |-> c]
  ELSE [ok |-> TRUE, character |-> [c EXCEPT !.potions = c.potions - 1]]

\* AIController.choose_target: the position of the living target with the
\* least hp, the first of them in list order; 0 for None
ChooseTarget(targets) ==
  LET alive == {i \in DOMAIN targets : IsAlive(targets[i])}
  IN  IF alive = {} THEN 0
      ELSE CHOOSE i \in alive :
             \A j \in alive :
               \/ targets[i].current_hp < targets[j].current_hp
               \/ (targets[i].current_hp = targets[j].current_hp /\ i <= j)

\* CombatEngine.attack, the result of the d20 roll
AttackResult(attacker, defender, attack_roll) ==
  IF attack_roll = 20 THEN "critical_hit"
  ELSE IF attack_roll = 1 THEN "miss"
  ELSE IF attack_roll + StrengthModifier(attacker) >= defender.armor_class THEN "hit"
  ELSE "miss"

\* CombatEngine.attack with weapon_damage "1d6": what the damage roll can
\* give, one die for a hit and two for a critical hit
DamageRolls(attack_result) ==
  IF attack_result = "hit" THEN 1..6
  ELSE IF attack_result = "critical_hit" THEN 2..12
  ELSE {0}

\* CombatEngine.attack: the defender afterwards
Attack(attacker, defender, attack_roll, damage_roll) ==
  IF AttackResult(attacker, defender, attack_roll) = "miss" THEN defender
  ELSE TakeDamage(defender, IF damage_roll < 1 THEN 1 ELSE damage_roll).character

\* CombatEngine.is_combat_over
IsCombatOver(team1, team2) ==
  LET team1_alive == \E i \in DOMAIN team1 : IsAlive(team1[i])
      team2_alive == \E i \in DOMAIN team2 : IsAlive(team2[i])
  IN  ~(team1_alive /\ team2_alive)

\* CombatEngine.get_winner; NoWinner stands for None
NoWinner == 0
GetWinner(team1, team2) ==
  IF ~IsCombatOver(team1, team2) THEN NoWinner
  ELSE IF \E i \in DOMAIN team1 : IsAlive(team1[i]) THEN 1 ELSE 2

\* AIController.decide_action of the character at position pos of the own
\* team: both teams afterwards, own team first
DecideAction(own, enemies, pos, attack_roll, damage_roll) ==
  LET c == own[pos]
      potion == RemovePotion(c)
      target == ChooseTarget(enemies)
  IN  IF NeedsHealing(c) /\ potion.ok
        THEN [own |-> [own EXCEPT ![pos] = Heal(potion.character, 10).character],
              enemies |-> enemies]
      ELSE IF target # 0
        THEN [own |-> own,
              enemies |-> [enemies EXCEPT
                             ![target] = Attack(c, enemies[target], attack_roll, damage_roll)]]
      ELSE [own |-> own, enemies |-> enemies]

\* the characters the teams are made of
Fighter(name, current_hp, potions, ai) ==
  [name |-> name, max_hp |-> MaxPlayHp, current_hp |-> current_hp,
   potions |-> potions, ai |-> ai, armor_class |-> 10, strength |-> 10]

Fighters(name) ==
  {Fighter(name, MaxPlayHp, 0, TRUE), Fighter(name, 1, 1, TRUE),
   Fighter(name, 0, 0, TRUE), Fighter(name, MaxPlayHp, 0, FALSE)}

\* the teams: one or two characters
Teams(side) ==
  LET lead == Fighters(IF side = 1 THEN "Hero1" ELSE "Enemy1")
      mate == Fighters(IF side = 1 THEN "Hero2" ELSE "Enemy2")
  IN  {<<a>> : a \in lead} \cup {<<a, b>> : a \in lead, b \in mate}

\* simulate_combat(team1, team2, max_rounds) up to the while loop
InitCombat ==
  \E team1 \in Teams(1), team2 \in Teams(2), max_rounds \in 1..MaxRounds :
    combat = [pc |-> "head", team1 |-> team1, team2 |-> team2,
              start1 |-> team1, start2 |-> team2, max_rounds |-> max_rounds,
              round_num |-> 0, pos |-> 0, rounds |-> 0, winner |-> NoWinner]

NotCombat == UNCHANGED <<sessionVars, ledgerVars, chooseVars, opVars, mainVars, hero, progress>>

\* while round_num < max_rounds: round_num += 1
BeginRound ==
  /\ combat.pc = "head"
  /\ combat.round_num < combat.max_rounds
  /\ combat' = [combat EXCEPT !.round_num = combat.round_num + 1,
                              !.pc = "team1", !.pos = 1]
  /\ NotCombat

\* the while condition fails
RoundsExhausted ==
  /\ combat.pc = "head"
  /\ ~(combat.round_num < combat.max_rounds)
  /\ combat' = [combat EXCEPT !.pc = "exit"]
  /\ NotCombat

ActingTeam == IF combat.pc = "team1" THEN combat.team1 ELSE combat.team2

\* for char in team: a dead character, or one without a controller
SkipFighter ==
  /\ combat.pc \in {"team1", "team2"}
  /\ combat.pos <= Len(ActingTeam)
  /\ ~IsAlive(ActingTeam[combat.pos]) \/ ~ActingTeam[combat.pos].ai
  /\ combat' = [combat EXCEPT !.pos = combat.pos + 1]
  /\ NotCombat

\* for char in team: controller.decide_action
FighterActs ==
  /\ combat.pc \in {"team1", "team2"}
  /\ combat.pos <= Len(ActingTeam)
  /\ IsAlive(ActingTeam[combat.pos])
  /\ ActingTeam[combat.pos].ai
  /\ \E attack_roll \in 1..20 :
       LET enemies == IF combat.pc = "team1" THEN combat.team2 ELSE combat.team1
           target == ChooseTarget(enemies)
           attack_result == IF target = 0 THEN "miss"
                            ELSE AttackResult(ActingTeam[combat.pos], enemies[target], attack_roll)
       IN  \E damage_roll \in DamageRolls(attack_result) :
             LET after == DecideAction(ActingTeam, enemies, combat.pos, attack_roll, damage_roll)
             IN  combat' = [combat EXCEPT
                   !.team1 = IF combat.pc = "team1" THEN after.own ELSE after.enemies,
                   !.team2 = IF combat.pc = "team1" THEN after.enemies ELSE after.own,
                   !.pos = combat.pos + 1]
  /\ NotCombat

\* if self.combat_engine.is_combat_over(team1, team2): break
CheckCombatOver ==
  /\ combat.pc \in {"team1", "team2"}
  /\ combat.pos > Len(ActingTeam)
  /\ combat' = [combat EXCEPT
       !.pc = IF IsCombatOver(combat.team1, combat.team2) THEN "exit"
              ELSE IF combat.pc = "team1" THEN "team2" ELSE "head",
       !.pos = 1]
  /\ NotCombat

\* winner = get_winner(team1, team2); return {'rounds': round_num, ...}
ReturnCombat ==
  /\ combat.pc = "exit"
  /\ combat' = [combat EXCEPT !.pc = "done", !.rounds = combat.round_num,
                              !.winner = GetWinner(combat.team1, combat.team2)]
  /\ NotCombat

NextCombat ==
  \/ BeginRound \/ RoundsExhausted \/ SkipFighter \/ FighterActs
  \/ CheckCombatOver \/ ReturnCombat

IdleCombat == combat = [pc |-> "none"]

\* ------------------------------------------------ rpg_automation Campaign
\* Campaign.get_current_encounter: <<encounter>>, or <<>> for None
GetCurrentEncounter(c) ==
  IF c.current_encounter_index < Len(c.encounters)
    THEN <<c.encounters[c.current_encounter_index + 1]>>
    ELSE <<>>

\* Campaign.is_complete
IsComplete(c) == c.current_encounter_index >= Len(c.encounters)

\* the mutant of AdvanceEncounter: the index moves, the id is not recorded
AdvanceWithoutRecord(c) ==
  [c EXCEPT !.current_encounter_index = c.current_encounter_index + 1]

\* Campaign.advance_encounter
AdvanceEncounter(c) ==
  LET current == GetCurrentEncounter(c)
      completed == IF current # <<>>
                     THEN Append(c.completed_encounters, current[1].id)
                     ELSE c.completed_encounters
  IN  [c EXCEPT !.completed_encounters = completed,
                !.current_encounter_index = c.current_encounter_index + 1]

EncounterIds == {"forest_ambush", "cave_entrance", "cave_battle"}

\* Campaign(encounters=[...]): index 0, nothing completed
InitProgress ==
  \E n \in 0..MaxEncounters :
    \E ids \in [1..n -> EncounterIds] :
      progress = [op |-> "create", calls |-> 0,
                  campaign |-> [encounters |-> [i \in 1..n |-> [id |-> ids[i]]],
                                current_encounter_index |-> 0,
                                completed_encounters |-> <<>>]]

\* one advance_encounter call
AdvanceCall ==
  /\ progress.op # "none"
  /\ progress.calls < MaxEncounters + 2
  /\ progress' = [op |-> "advance_encounter", calls |-> progress.calls + 1,
                  campaign |-> AdvanceEncounter(progress.campaign)]
  /\ UNCHANGED <<sessionVars, ledgerVars, chooseVars, opVars, mainVars, hero, combat>>

NextProgress == AdvanceCall

IdleProgress == progress = [op |-> "none"]

IdlePlay == IdleHero /\ IdleCombat /\ IdleProgress

\* an rpg_play Character under take_damage and heal calls
CharacterInit ==
  /\ IdleSession /\ InitLedger /\ IdleChoose /\ IdleOp /\ IdleMain
  /\ InitHero /\ IdleCombat /\ IdleProgress
CharacterSpec == CharacterInit /\ [][NextCharacter]_vars

\* CampaignSimulator.simulate_combat
CombatInit ==
  /\ IdleSession /\ InitLedger /\ IdleChoose /\ IdleOp /\ IdleMain
  /\ IdleHero /\ InitCombat /\ IdleProgress
CombatSpec == CombatInit /\ [][NextCombat]_vars

\* an rpg_automation Campaign under advance_encounter calls
ProgressInit ==
  /\ IdleSession /\ InitLedger /\ IdleChoose /\ IdleOp /\ IdleMain
  /\ IdleHero /\ IdleCombat /\ InitProgress
ProgressSpec == ProgressInit /\ [][NextProgress]_vars

\* main.py with its defaults: HeuristicActor, SimpleDirector and
\* GenericD20Ruleset, on a party of two with any hit points
InitHeuristic ==
  /\ \E t \in 0..MaxTurns, seed \in 0..MaxRunSeed :
       \E aria \in 0..MaxStartHp, borin \in 0..MaxStartHp :
         /\ start = Campaign(<<Member(1, aria), Member(2, borin)>>, Encounters)
         /\ cfg = [max_turns |-> t, seed |-> seed, scene_reply |-> NoReply,
                   llm_replies |-> [n \in {"Aria", "Borin"} |->
                                      [has_action |-> FALSE, action |-> ""]],
                   ai_replies |-> [n \in {"Aria", "Borin"} |-> NoActorReply],
                   custom_outcomes |-> [n \in {"Aria", "Borin"} |-> "heal"]]
                  @@ Setup("generic", "simple", FALSE, "heuristic", FALSE, FALSE,
                           FALSE, 0, "main", Encounters, EmptyProfile)
  /\ campaign = start
  /\ pc = "init"
  /\ turn_number = 0
  /\ idx = 0
  /\ scene = NoScene
  /\ intent = NoIntent
  /\ intents = <<>>
  /\ outcomes = <<>>
  /\ turns = <<>>
  /\ result = NoResult
  /\ rngs = [rules |-> 1, director |-> 1, actor |-> 1]
  /\ runNo = 1
  /\ first = NoFirst
  /\ directorCalls = 0
  /\ resolveCall = NoResolve

NextHeuristic ==
  \/ RunSingle
  \/ BeginTurn
  \/ SkipDefeated
  \/ ChooseAction
  \/ ResolveIntent
  \/ EndTurn
  \/ Return

HeuristicInit == InitHeuristic /\ InitLedger /\ IdleChoose /\ IdleOp /\ IdleMain /\ IdlePlay
HeuristicSpec == HeuristicInit /\ [][NextHeuristic]_vars

\* the session engine
Init == InitSession /\ InitLedger /\ IdleChoose /\ IdleOp /\ IdleMain /\ IdlePlay
Next == NextSession
Spec == Init /\ [][Next]_vars

\* the ledger
LedgerInit == IdleSession /\ InitLedger /\ IdleChoose /\ IdleOp /\ IdleMain /\ IdlePlay
LedgerSpec == LedgerInit /\ [][NextLedger]_vars

\* single choose_action calls
ChooseInit == IdleSession /\ InitLedger /\ InitChoose /\ IdleOp /\ IdleMain /\ IdlePlay
ChooseSpec == ChooseInit /\ [][NextChoose]_vars

\* single resolve_intent and build_scene calls
OpInit == IdleSession /\ InitLedger /\ IdleChoose /\ InitOp /\ IdleMain /\ IdlePlay
OpSpec == OpInit /\ [][NextOp]_vars

\* main.py running two sessions in one process
RunsInit == InitRuns /\ InitLedger /\ IdleChoose /\ IdleOp /\ IdlePlay
RunsSpec == RunsInit /\ [][NextRuns]_vars

\* the ledger with record_session calls that may be interrupted
CrashSpec == LedgerInit /\ [][NextCrash]_vars

\* the ledger with files damaged between calls
DamagedSpec == LedgerInit /\ [][NextDamaged]_vars

\* main.py run twice on one ledger, the second time with --resume
ResumeInit == InitSession /\ cfg.harness = "main" /\ InitLedger /\ IdleChoose /\ IdleOp /\ IdleMain /\ IdlePlay
ResumeSpec == ResumeInit /\ [][NextResume]_vars

\* ------------------------------------------------------------------ claims
LastLog == campaign.log[Len(campaign.log)]

EndedLine ==
  LogLine(0, "", "Session ended: all party members defeated", 0, "")

StoppedEarly ==
  /\ AllPartyDefeated(campaign)
  /\ campaign.log # <<>>
  /\ LastLog = EndedLine

\* C1: for max_turns >= 1 the returned total_turns is at most max_turns, and
\* it equals max_turns unless the run stopped early with every party member
\* at hp <= 0.
C1_TotalTurnsBounded ==
  (pc = "done" /\ cfg.max_turns >= 1) =>
    /\ result.total_turns <= cfg.max_turns
    /\ result.total_turns = cfg.max_turns \/ StoppedEarly

\* a run that resolved actions and was cut short by the defeat of the party
C1_Witness ==
  /\ pc = "done"
  /\ cfg.max_turns >= 1
  /\ result.total_turns < cfg.max_turns
  /\ resolveCall.called
  /\ StoppedEarly

\* C2: from a campaign whose characters start with hp >= 0, every party
\* member has hp >= 0 in every state of the run, whatever the hp deltas.
C2_HpNeverNegative ==
  \A i \in DOMAIN campaign.party : campaign.party[i].hp >= 0

\* the first action of a run took 3 hp from a character that had fewer
C2_Witness ==
  /\ cfg.ruleset = "custom"
  /\ Len(campaign.log) = 1
  /\ Len(outcomes) = 1
  /\ outcomes[1].hp_delta = (outcomes[1].actor_name :> -3)
  /\ FindMember(start.party, outcomes[1].actor_name).hp < 3
  /\ FindMember(campaign.party, outcomes[1].actor_name).hp = 0

\* C3: two invocations from equal campaign states with the same seed, the
\* same seeded ruleset, director and policy actor, no model in the loop and
\* the same max_turns end with identical logs and identical hp.
C3_Determinism ==
  (runNo = 2 /\ pc = "done" /\ cfg.actor = "policy") =>
    /\ campaign.log = first.log
    /\ PartyHp(campaign) = first.hp

\* a repeated run in which both the ruleset and the actor drew random numbers
C3_Witness ==
  /\ runNo = 2
  /\ pc = "done"
  /\ cfg.actor = "policy"
  /\ rngs.rules # SeedRng(cfg.seed)
  /\ rngs.actor # SeedRng(cfg.seed)
  /\ Len(campaign.log) >= 2

\* C4: choose_action never fails and returns an action of scene.options,
\* for every scene, policy profile, campaign state and model response; when
\* no option carries the maximum score it returns the first option.
C4_ChooseNeverFails ==
  chooseOut.called =>
    /\ chooseOut.ok
    /\ chooseOut.action \in Range(chooseIn.scene.options)

\* C5: resolve_intent is only ever called for an intent whose action is one
\* of the options of the scene built for the current turn.
C5_ResolveOnlySceneOptions ==
  resolveCall.called => resolveCall.action \in Range(resolveCall.options)

Rejecting == pc = "validate" /\ ~ValidateIntent(cfg.ruleset, intent.action)

\* C6: when validate_intent returns false, the run appends exactly one
\* rejection line, records no intent and no outcome for the character,
\* leaves every hp and flag unchanged and goes on with the next character;
\* no TurnResult holds an intent that was rejected.
C6_InvalidIntentSkipped ==
  /\ [][Rejecting =>
          /\ campaign'.log = Append(campaign.log,
                                    LogLine(turn_number, intent.actor_name,
                                            "submitted invalid action", 0, ""))
          /\ campaign'.party = campaign.party
          /\ campaign'.flags = campaign.flags
          /\ campaign'.turn_index = campaign.turn_index
          /\ intents' = intents
          /\ outcomes' = outcomes
          /\ turns' = turns
          /\ pc' = "char"
          /\ idx' = idx + 1
          /\ turn_number' = turn_number]_vars
  /\ [](\A k \in DOMAIN turns :
          /\ Len(turns[k].intents) = Len(turns[k].outcomes)
          /\ \A j \in DOMAIN turns[k].intents :
               ValidateIntent(cfg.ruleset, turns[k].intents[j].action))

\* a turn was recorded in which a character was rejected and a later one acted
C6_Witness ==
  /\ turns # <<>>
  /\ \E j \in DOMAIN campaign.log :
       /\ campaign.log[j].text = "submitted invalid action"
       /\ campaign.log[j].turn = 1
       /\ j < Len(campaign.log)
       /\ campaign.log[j + 1].turn = 1
       /\ campaign.log[j + 1].text # "submitted invalid action"
  /\ Len(turns[1].intents) = 1

\* C7: the all-defeated check runs after every turn; at the first turn after
\* which every party member has hp <= 0 the TurnResult is recorded, the
\* terminal line appended and no further turn executed, and total_turns is
\* the number of TurnResults.
C7_EarlyStop ==
  /\ [][(pc = "char" /\ idx > Len(campaign.party) /\ AllPartyDefeated(campaign)) =>
          /\ turns' = Append(turns, TurnResult)
          /\ campaign'.log = Append(campaign.log, EndedLine)
          /\ pc' = "exit"]_vars
  /\ []((pc = "head" /\ turn_number > 1) =>
          /\ ~AllPartyDefeated(campaign)
          /\ Len(turns) = turn_number - 1)
  /\ [](pc = "exit" =>
          /\ StoppedEarly
          /\ Len(turns) = turn_number)
  /\ []((pc = "done" /\ cfg.max_turns >= 1) =>
          /\ result.total_turns = Len(result.turns)
          /\ result.turns = turns)

\* the party fell in the second turn, after resolving actions
C7_Witness ==
  /\ pc = "exit"
  /\ turn_number = 2
  /\ resolveCall.called
  /\ Len(turns) = 2
  /\ turns[2].outcomes # <<>>

\* C8: run with max_turns < 1 or an empty party fails at run start, without
\* calling the director, appending to the log or changing turn_index.
C8_ConfigRejected ==
  (cfg.max_turns < 1 \/ start.party = <<>>) =>
    /\ ~result.returned
    /\ directorCalls = 0
    /\ campaign.turn_index = start.turn_index
    /\ campaign.log = start.log

ExpectedId(k) == <<"session_", 0, 0, 0, k>>

\* C9: after n record_session calls on a freshly ensured ledger the manifest
\* lists exactly the sessions session_0001 .. session_000n in that order,
\* session_count = n, and one session file exists per id.
C9_SessionIdsGapFree ==
  (ledgerPc = "idle" /\ manifest.exists) =>
    LET n == Len(recorded)
    IN /\ manifest.session_count = n
       /\ Len(manifest.sessions) = n
       /\ \A k \in 1..n : manifest.sessions[k].session_id = ExpectedId(k)
       /\ DOMAIN sessionFiles = {ExpectedId(k) : k \in 1..n}

\* three sessions recorded, as in the scenario of the specification
C9_Witness ==
  /\ ledgerPc = "idle"
  /\ Len(recorded) = 3
  /\ manifest.session_count = 3

\* C10: after any sequence of record_session calls latest_state.json holds
\* the final state of the most recently recorded session, which is the
\* final_state of the last session file the manifest lists.
C10_LatestStateIsLast ==
  (ledgerPc = "idle" /\ recorded # <<>>) =>
    LET last == manifest.sessions[Len(manifest.sessions)]
    IN /\ latestState.exists
       /\ latestState.state = recorded[Len(recorded)].final_state
       /\ last.session_id \in DOMAIN sessionFiles
       /\ latestState.state = sessionFiles[last.session_id].result.final_state

\* the snapshot of an earlier session was overwritten by a different state
C10_Witness ==
  /\ ledgerPc = "idle"
  /\ Len(recorded) >= 2
  /\ recorded[Len(recorded)].final_state # recorded[Len(recorded) - 1].final_state
  /\ latestState.state = recorded[Len(recorded)].final_state

\* positions inside SessionEngine.run
InRun == pc \in {"head", "char", "validate", "exit"}

\* the resumed process is about to execute the first statement of
\* SessionEngine.run
ResumedRunStarts == runNo = 2 /\ pc = "head" /\ turn_number = 1

\* C11: the CampaignState a resumed session runs on has turn_index, every
\* party member's hp, flags and log equal to the values persisted at the end
\* of the previous session.
C11_ResumeVerbatim ==
  ResumedRunStarts =>
    /\ campaign.turn_index = latestState.state.turn_index
    /\ PartyHp(campaign) = PartyHp(latestState.state)
    /\ campaign.flags = latestState.state.flags
    /\ campaign.log = latestState.state.log

\* C12: after a recorded session of k turns, a resumed session continues
\* the turn numbering after k and extends the log of the previous session,
\* as an uninterrupted run of both sessions' turns would.
C12_ResumeContinues ==
  (runNo = 2 /\ pc = "done" /\ cfg.max_turns >= 1) =>
    /\ campaign.turn_index > first.total_turns
    /\ Len(campaign.log) >= Len(first.log)
    /\ SubSeq(campaign.log, 1, Len(first.log)) = first.log
    /\ \A i \in DOMAIN campaign.log :
         i > Len(first.log) =>
           \/ campaign.log[i] = EndedLine
           \/ campaign.log[i].turn > first.total_turns

\* C13: campaign.turn_index never decreases at any step of
\* SessionEngine.run, also when the run starts on a campaign whose
\* turn_index is already greater than 0.
C13_TurnIndexMonotonic ==
  [][InRun => campaign'.turn_index >= campaign.turn_index]_vars

\* C14: during SessionEngine.run the log only grows at its end, no key
\* leaves campaign.flags, and flags change only by the merge of the
\* flag_updates of the outcome just resolved.
C14_LogAndFlagsGrowOnly ==
  [][InRun =>
       /\ Len(campaign'.log) >= Len(campaign.log)
       /\ SubSeq(campaign'.log, 1, Len(campaign.log)) = campaign.log
       /\ DOMAIN campaign.flags \subseteq DOMAIN campaign'.flags
       /\ campaign'.flags # campaign.flags =>
            /\ pc = "validate"
            /\ Len(outcomes') = Len(outcomes) + 1
            /\ campaign'.flags =
                 DictUpdate(campaign.flags,
                            outcomes'[Len(outcomes')].flag_updates)]_vars

\* a run whose log has grown over two turns and whose flags hold both the
\* mode recorded before the run and a discovery merged during it
C14_Witness ==
  /\ InRun
  /\ turn_number = 2
  /\ Len(campaign.log) >= 2
  /\ {"ai_mode", "latest_discovery"} \subseteq DOMAIN campaign.flags

\* C15: a manifest or snapshot that lacks a required field is never loaded
\* with a default in its place (record_session does not proceed on a
\* manifest without session_count, the resume path does not build a
\* campaign from a snapshot without party or turn_index), and the session
\* file of every session listed in the manifest keeps the recorded result.
C15_CorruptCheckpointRejected ==
  /\ ledgerPc \in {"loaded", "written", "saved"} =>
       "session_count" \in DOMAIN call.manifest
  /\ pc = "resumed" =>
       {"party", "turn_index"} \subseteq DOMAIN latestState.state
  /\ \A i \in DOMAIN Get(manifest, "sessions", <<>>) :
       sessionFiles[manifest.sessions[i].session_id].result = recorded[i]

\* the director, or the policy actor for one character, gets nothing from
\* the model: AI disabled, no credential, or _call_openai_json returned None
DirectorWithoutModel ==
  ~cfg.director_ai \/ ~cfg.api_key \/ cfg.scene_reply = NoReply

ActorWithoutModel(name) ==
  ~cfg.actor_ai \/ ~cfg.api_key \/ ~cfg.ai_replies[name].isdict

\* C16: whenever AIDirector or PolicyDrivenActor cannot use the model, the
\* Scene is the one the wrapped director built and the intent's action is
\* the deterministic policy choice.
C16_FallbackIdentical ==
  [][/\ (pc = "head" /\ pc' = "char" /\ DirectorWithoutModel) =>
          scene' = FallbackBuildScene(cfg.base, campaign', cfg.chunks,
                                      rngs.director).scene
     /\ (pc = "char" /\ pc' = "validate" /\ cfg.actor = "policy"
         /\ ActorWithoutModel(intent'.actor_name)) =>
          intent'.action =
            ChooseFromPolicy(campaign.flags, scene,
                             FindMember(campaign.party, intent'.actor_name),
                             ResolvePolicy(cfg.profile, intent'.actor_name).policy,
                             cfg.profile.campaign, rngs.actor).action]_vars

\* a step that is one ensure_ledger call
EnsureStep == ensureCalls' = ensureCalls + 1

\* C17: ensure_ledger on a ledger that has a manifest changes neither the
\* manifest (session_count, session list) nor the session files nor
\* latest_state, and a ledger ensured any number of times before the first
\* record_session has the empty manifest: session_count 0, no sessions.
C17_EnsureIdempotent ==
  /\ [][(EnsureStep /\ manifest.exists) =>
          /\ manifest' = manifest
          /\ sessionFiles' = sessionFiles
          /\ latestState' = latestState]_vars
  /\ []((manifest.exists /\ recorded = <<>> /\ ledgerPc = "idle") =>
          /\ manifest.session_count = 0
          /\ manifest.sessions = <<>>
          /\ ~latestState.exists)

\* ensure_ledger was called again after two sessions had been recorded
C17_Witness ==
  /\ ensureCalls = 2
  /\ ledgerPc = "idle"
  /\ Len(recorded) = 2
  /\ manifest.session_count = 2

\* s is an initial segment of t
IsPrefix(s, t) == Len(s) <= Len(t) /\ SubSeq(t, 1, Len(s)) = s

C19_RecordAtomic ==
  ledgerPc = "idle" =>
    /\ DOMAIN sessionFiles =
         {manifest.sessions[i].session_id : i \in DOMAIN manifest.sessions}
    /\ latestState.exists =>
         /\ manifest.sessions # <<>>
         /\ latestState.state =
              sessionFiles[manifest.sessions[Len(manifest.sessions)].session_id]
                .result.final_state
    /\ \A i \in DOMAIN manifest.sessions :
         sessionFiles[manifest.sessions[i].session_id].result = recorded[i]

\* the low-hp scenario: one character with hp 2, the five generic options,
\* caution 0.8 and no priorities, the choice left to the policy
LowHpScenario ==
  /\ chooseOut.called
  /\ chooseIn.profile = CautiousProfile
  /\ chooseIn.scene.options = GenericOptions
  /\ chooseIn.party[1].hp = 2
  /\ ~(chooseIn.use_ai /\ chooseIn.api_key)

\* C20: in the low-hp scenario PolicyDrivenActor chooses rest, whatever the
\* character's class and role and whether or not latest_discovery is set.
C20_LowHpRests ==
  LowHpScenario => chooseOut.action = "rest"

\* the effective policy of the character a choose_action call is for
ChoosePolicy == ResolvePolicy(chooseIn.profile, chooseIn.party[1].name).policy

\* the score _choose_from_policy gives an option in that call
ChooseScore(option) ==
  OptionScore(option, chooseIn.flags, chooseIn.party[1], ChoosePolicy,
              chooseIn.profile.campaign)

ChooseWithoutModel == ~(chooseIn.use_ai /\ chooseIn.api_key)

\* latest_discovery absent or empty, investigate offered, no priorities and
\* no campaign preferred or avoided actions, no combat keyword in the class
DiscoveryScenario ==
  /\ chooseOut.called
  /\ chooseOut.ok
  /\ ChooseWithoutModel
  /\ MapGet(chooseIn.flags, "latest_discovery", "") = ""
  /\ "investigate" \in Range(chooseIn.scene.options)
  /\ ChoosePolicy.priorities.kind = "missing"
  /\ chooseIn.profile.campaign = EmptyCampaignPolicy
  /\ chooseIn.party[1].char_class \cap MartialTokens = {}

DiscoveryOutranksAttack ==
  /\ FGt(ChooseScore("investigate"), ChooseScore("attack"))
  /\ chooseOut.action # "attack"

MaxOptions ==
  {o \in Range(chooseIn.scene.options) :
     \A q \in Range(chooseIn.scene.options) :
       FGt(ChooseScore(o), ChooseScore(q)) \/ FEq(ChooseScore(o), ChooseScore(q))}

\* the entries of the policy's tie_breaker list that are tied for the maximum
TieBreakHits ==
  IF ChoosePolicy.tie_breaker.kind = "list"
  THEN SelectSeq(ChoosePolicy.tie_breaker.list, LAMBDA a : a \in MaxOptions)
  ELSE <<>>

\* the tied options in the order the scene offers them
TiedInSceneOrder == SelectSeq(chooseIn.scene.options, LAMBDA o : o \in MaxOptions)

DeterministicCall == chooseOut.called /\ chooseOut.ok /\ ChooseWithoutModel

MaximumAndTieBreak ==
  /\ chooseOut.action \in MaxOptions
  /\ Cardinality(MaxOptions) > 1 /\ TieBreakHits # <<>>
       => chooseOut.action = TieBreakHits[1]
  /\ Cardinality(MaxOptions) > 1 /\ TieBreakHits = <<>>
       => chooseOut.action =
            TiedInSceneOrder[1 + RandBelow(chooseIn.rng, Len(TiedInSceneOrder))]

NanScore == \E o \in Range(chooseIn.scene.options) : ChooseScore(o).nan

\* C22 as stated: the deterministic choice always has the maximum score.
\* Violated by priorities that are NaN: no option's score is then at least
\* every score, and the first option is returned.
C22_AsStated ==
  DeterministicCall => MaximumAndTieBreak

\* C22: provided no option's score is NaN, the deterministic choice has the
\* maximum score; a unique maximum is returned; on a tie the first entry of
\* the policy's tie_breaker list that is tied wins; and only if no tied
\* option is in that list is the choice drawn among the tied options, in
\* scene order, with the actor's generator.
C22_MaximumAndTieBreak ==
  DeterministicCall /\ ~NanScore => MaximumAndTieBreak

\* defend and rest tie at 4.0 and both are in the tie_breaker list
C22_Witness ==
  /\ DeterministicCall
  /\ ~NanScore
  /\ MaxOptions = {"defend", "rest"}
  /\ Len(TieBreakHits) = 2
  /\ chooseOut.action = "defend"

\* several options share the maximum and none is in the tie_breaker list
UnresolvedTie == Cardinality(MaxOptions) > 1 /\ TieBreakHits = <<>>

ChooseOverrides ==
  IF chooseIn.party[1].name \in DOMAIN chooseIn.profile.characters
     /\ chooseIn.profile.characters[chooseIn.party[1].name].isdict
  THEN chooseIn.profile.characters[chooseIn.party[1].name].policy
  ELSE EmptyPolicy

MergedPriorities ==
  LET base == chooseIn.profile.default.priorities.map
      over == ChooseOverrides.priorities.map
      merged == ChoosePolicy.priorities.map
  IN /\ ChoosePolicy.priorities.kind = "dict"
     /\ DOMAIN merged = DOMAIN base \cup DOMAIN over
     /\ \A k \in DOMAIN merged :
          merged[k] = IF k \in DOMAIN over THEN over[k] ELSE base[k]

FieldByField ==
  /\ \A field \in {"caution", "aggression", "exploration", "tie_breaker"} :
       ChoosePolicy[field] = IF ChooseOverrides[field].kind # "missing"
                             THEN ChooseOverrides[field]
                             ELSE chooseIn.profile.default[field]
  /\ CASE ChooseOverrides.priorities.kind = "dict" -> MergedPriorities
       [] ChooseOverrides.priorities.kind = "missing" ->
            ChoosePolicy.priorities = chooseIn.profile.default.priorities
       [] OTHER -> ChoosePolicy.priorities = ChooseOverrides.priorities

\* C24: for every actor name _resolve_policy returns the default policy
\* overridden field by field by the character's entry: priorities are merged
\* key by key (the character's value on shared keys, default-only keys
\* kept), every other overridden field replaces the default's wholesale, and
\* the call leaves the stored profile as it was.
C24_ResolvePolicy ==
  /\ [](chooseOut.called
          => ResolvePolicy(chooseIn.profile, chooseIn.party[1].name).ok
             /\ FieldByField)
  /\ [][chooseIn'.profile = chooseIn.profile]_vars

\* the score the call gives an option if the character had the given hp
ScoreAtHp(option, hp) ==
  OptionScore(option, chooseIn.flags, [chooseIn.party[1] EXCEPT !.hp = hp],
              ChoosePolicy, chooseIn.profile.campaign)

\* what the low-hp rule adds to an option's score in the call
LowHpNudge(option) ==
  ScoreAtHp(option, chooseIn.party[1].hp).v - ScoreAtHp(option, 4).v

\* the caution of the claim: the policy's number, 0.5 if missing or not a number
ClaimedCaution ==
  IF ChoosePolicy.caution.kind = "num" THEN ChoosePolicy.caution.v ELSE 50

ClaimedNudge(option) ==
  IF chooseIn.party[1].hp <= 3
  THEN CASE option = "rest" -> 250 + ClaimedCaution
         [] option = "defend" -> 150 + ClaimedCaution
         [] option = "attack" -> -100
         [] OTHER -> 0
  ELSE 0

\* C25: exactly when the character's hp is 3 or less, rest gains
\* 2.5 + caution, defend gains 1.5 + caution and attack loses 1.0, for the
\* options the scene offers; from hp 4 on nothing is added; a caution that
\* is missing or not a number counts as 0.5.
C25_LowHpHeuristic ==
  chooseOut.called /\ chooseOut.ok =>
    \A o \in Range(chooseIn.scene.options) :
      ~ChooseScore(o).nan =>
        /\ LowHpNudge(o) = ClaimedNudge(o)
        /\ ScoreAtHp(o, 4) = ScoreAtHp(o, 5)

\* a resolve_intent call of the given ruleset that returned an outcome
Resolved(ruleset) ==
  /\ opIn.op = "resolve"
  /\ opIn.ruleset = ruleset
  /\ opOut.called
  /\ opOut.valid

\* the hit points the outcome adds to a character
HpEffect(outcome, name) == MapGet(outcome.hp_delta, name, 0)

\* C26: for every roll from 1 to 20, GenericD20Ruleset resolves rest to a
\* success with +1 hp for the actor, attack to a success exactly when the
\* roll is 10 or more, with 0 hp on success and -1 on failure, and defend,
\* investigate and negotiate without any hp change; no outcome changes the
\* hp of a character other than the actor.
C26_RulesetHpEffects ==
  Resolved("generic") =>
    LET o == opOut.outcome
    IN /\ o.roll \in 1..20
       /\ o.actor_name = opIn.actor
       /\ opIn.action = "rest" => o.success /\ HpEffect(o, opIn.actor) = 1
       /\ opIn.action = "attack" =>
            /\ o.success <=> o.roll >= 10
            /\ HpEffect(o, opIn.actor) = IF o.success THEN 0 ELSE -1
       /\ opIn.action \in {"defend", "investigate", "negotiate"} =>
            HpEffect(o, opIn.actor) = 0
       /\ \A name \in {"Aria", "Borin"} \ {opIn.actor} : HpEffect(o, name) = 0
       /\ DOMAIN o.hp_delta \subseteq {opIn.actor}

\* an attack that hits on a roll of exactly 10
C26_Witness ==
  /\ Resolved("generic")
  /\ opIn.action = "attack"
  /\ opOut.outcome.roll = 10
  /\ opOut.outcome.success
  /\ HpEffect(opOut.outcome, opIn.actor) = 0

\* flags["latest_discovery"], empty when the key is absent
Discovery(c) == MapGet(c.flags, "latest_discovery", "")

\* C27: with GenericD20Ruleset or SRD2024Ruleset, during a run a successful
\* investigate (roll 11 or more) leaves flags["latest_discovery"] non-empty,
\* a failed investigate leaves the flags untouched, no other step changes
\* the flag, and once non-empty it stays non-empty.
C27_DiscoveryFlag ==
  [][InRun /\ cfg.ruleset # "custom" =>
       LET resolved == Len(outcomes') = Len(outcomes) + 1
           investigated == resolved /\ intent.action = "investigate"
           o == outcomes'[Len(outcomes')]
       IN /\ Discovery(campaign) # "" => Discovery(campaign') # ""
          /\ investigated /\ o.roll >= 11 =>
               o.success /\ Discovery(campaign') # ""
          /\ investigated /\ o.roll < 11 =>
               ~o.success /\ campaign'.flags = campaign.flags
          /\ Discovery(campaign') # Discovery(campaign) =>
               investigated /\ o.roll >= 11]_vars

\* a discovery made earlier in the run is still there after a later action
\* of another kind was resolved
C27_Witness ==
  /\ InRun
  /\ cfg.ruleset # "custom"
  /\ Discovery(campaign) # ""
  /\ Len(campaign.log) >= 2
  /\ \E i \in 1..(Len(campaign.log) - 1) : campaign.log[i].text = "uncovers a clue"
  /\ LastLog.text \notin {"uncovers a clue", "finds nothing useful"}

\* what GenericD20Ruleset returns for the intent and generator state of the call
GenericTwin == RulesetResolve("generic", opIn.action, opIn.actor, opIn.rng)

\* C28: SRD2024Ruleset accepts exactly the actions GenericD20Ruleset accepts
\* plus use-equipment and exploit-mastery; for an action the generic ruleset
\* accepts it returns, from the same generator state, the outcome the
\* generic ruleset returns; and every intent either ruleset accepts is
\* resolved to an outcome for its actor.
C28_SrdExtendsGeneric ==
  opIn.op = "resolve" /\ opOut.called =>
    /\ opIn.ruleset = "srd" =>
         (opOut.valid <=> \/ ValidateIntent("generic", opIn.action)
                          \/ opIn.action \in {"use-equipment", "exploit-mastery"})
    /\ opIn.ruleset = "srd" /\ ValidateIntent("generic", opIn.action) =>
         /\ opOut.valid
         /\ opOut.outcome = GenericTwin.outcome
         /\ opOut.rng = GenericTwin.rng
    /\ opOut.valid =>
         /\ opOut.outcome.actor_name = opIn.actor
         /\ opOut.outcome.roll \in 1..20
         /\ opOut.outcome.success \in BOOLEAN

\* the SRD ruleset resolved a successful investigate as the generic one does
C28_Witness ==
  /\ Resolved("srd")
  /\ opIn.action = "investigate"
  /\ opOut.outcome.success
  /\ opOut.outcome = GenericTwin.outcome
  /\ opOut.outcome.flag_updates = ("latest_discovery" :> "clue_discovered")

\* a build_scene call of the given director that has returned
Built(base) == opIn.op = "build_scene" /\ opIn.base = base /\ opOut.called

\* C29: SimpleDirector and SRD2024Director build the scene of turn t from
\* encounters[(t - 1) mod len(encounters)], so the encounters are visited in
\* order from the first at turn 1 and start over after the last; without
\* encounters the prompt is the fixed quiet-moment one; the encounter list
\* is the same after the call.
C29_DirectorCycling ==
  opIn.op = "build_scene" /\ opOut.called =>
    LET encounters == opIn.campaign.encounters
        t == opIn.campaign.turn_index
        n == Len(encounters)
        encounter == opOut.scene.prompt.encounter
    IN /\ n > 0 => encounter = encounters[((t - 1) % n) + 1]
       /\ n > 0 /\ t <= n => encounter = encounters[t]
       /\ n > 0 /\ t > n /\ t <= 2 * n => encounter = encounters[t - n]
       /\ n = 0 => encounter = "A quiet moment with uncertain tension."
       /\ opOut.encounters = encounters

\* turn 3 of a campaign with two encounters is built from the first again
C29_Witness ==
  /\ Built("simple")
  /\ opIn.campaign.encounters = Encounters
  /\ opIn.campaign.turn_index = 3
  /\ opOut.scene.prompt.encounter = "ambush"

\* the options a director offers are the actions the ruleset accepts
OffersVocabulary(base, ruleset) ==
  Built(base) =>
    \A action \in OpActions \cup Range(opOut.scene.options) :
      action \in Range(opOut.scene.options) <=> ValidateIntent(ruleset, action)

\* C30: the options of every SimpleDirector scene are exactly the actions
\* GenericD20Ruleset.validate_intent accepts, and the options of every
\* SRD2024Director scene exactly those SRD2024Ruleset.validate_intent
\* accepts.
C30_DirectorVocabulary ==
  /\ OffersVocabulary("simple", "generic")
  /\ OffersVocabulary("srd", "srd")

\* an SRD2024Director scene offering the two SRD actions
C30_Witness ==
  /\ Built("srd")
  /\ {"use-equipment", "exploit-mastery"} \subseteq Range(opOut.scene.options)
  /\ Len(opOut.scene.options) = 7

\* C31: what a SessionResult in main's results list holds (total_turns,
\* TurnResults, and the hp, flags, log and turn_index of its final_state)
\* stays as it was when its run returned, also while a later session runs.
C31_ResultsAreSnapshots ==
  \A k \in DOMAIN mainRuns.results :
    Deref(mainRuns.results[k]) = mainRuns.results[k].at_return

\* C32: an rpg_play Character created with 0 <= current_hp <= max_hp keeps
\* 0 <= current_hp <= max_hp under every sequence of take_damage and heal
\* calls with integer arguments; damage of at least the remaining hp leaves
\* current_hp = 0 and is_alive false; heal returns the hp it restored
C32_HitPointsInBounds ==
  LET c == hero.character
  IN  /\ 0 <= c.current_hp
      /\ c.current_hp <= c.max_hp
      /\ (hero.op = "take_damage" /\ hero.arg >= hero.before)
           => (c.current_hp = 0 /\ ~IsAlive(c))
      /\ hero.op = "heal"
           => (hero.returned = c.current_hp - hero.before /\ hero.returned >= 0)

\* a heal that was cut at max_hp, after damage
C32_Witness ==
  /\ hero.op = "heal"
  /\ hero.returned > 0
  /\ hero.arg > hero.returned
  /\ hero.character.current_hp = hero.character.max_hp

\* a team with at least one living character that has an AIController
HasLivingAi(team) == \E i \in DOMAIN team : IsAlive(team[i]) /\ team[i].ai

\* C33: simulate_combat on two teams that each start with a living
\* AI-controlled character, with max_rounds >= 1, returns rounds between 1
\* and max_rounds and a winner of 1 or 2
C33_SimulateCombat ==
  (/\ combat.pc = "done"
   /\ HasLivingAi(combat.start1)
   /\ HasLivingAi(combat.start2)
   /\ combat.max_rounds >= 1)
    => /\ 1 <= combat.rounds
       /\ combat.rounds <= combat.max_rounds
       /\ combat.winner \in {1, 2}

\* the part that holds: the rounds, and a winner whenever a team is down
C33_RoundsAndWinner ==
  (/\ combat.pc = "done"
   /\ HasLivingAi(combat.start1)
   /\ HasLivingAi(combat.start2))
    => /\ 1 <= combat.rounds
       /\ combat.rounds <= combat.max_rounds
       /\ combat.winner = NoWinner <=> ~IsCombatOver(combat.team1, combat.team2)
       /\ combat.winner = NoWinner => combat.rounds = combat.max_rounds

\* no value occurs twice in the sequence
Distinct(seq) == \A i, j \in DOMAIN seq : seq[i] = seq[j] => i = j

\* after k advance_encounter calls on n encounters: the index is k, the
\* completed list holds the ids of the first min(k, n) encounters in order,
\* is_complete() iff k >= n, get_current_encounter() is None iff is_complete()
ProgressAfterCalls ==
  LET c == progress.campaign
      k == progress.calls
      n == Len(c.encounters)
      done == IF k < n THEN k ELSE n
  IN  /\ c.current_encounter_index = k
      /\ c.completed_encounters = [i \in 1..done |-> c.encounters[i].id]
      /\ IsComplete(c) <=> k >= n
      /\ GetCurrentEncounter(c) = <<>> <=> IsComplete(c)

\* the statement with its parenthesis: no id is in completed_encounters twice
C34_AsStated ==
  progress.op # "none"
    => ProgressAfterCalls /\ Distinct(progress.campaign.completed_encounters)

\* C34: Campaign progression after k advance_encounter calls on n
\* encounters: index k, completed_encounters the ids of the first min(k, n)
\* encounters in order, one entry per encounter, complete iff k >= n, no
\* current encounter iff complete; the ids in completed_encounters are
\* distinct when the encounters' ids are
C34_Progression ==
  progress.op # "none"
    => /\ ProgressAfterCalls
       /\ Distinct([i \in DOMAIN progress.campaign.encounters |->
                      progress.campaign.encounters[i].id])
            => Distinct(progress.campaign.completed_encounters)

\* advanced past the end of a campaign of at least two encounters
C34_Witness ==
  /\ progress.op = "advance_encounter"
  /\ Len(progress.campaign.encounters) >= 2
  /\ progress.calls > Len(progress.campaign.encounters)
  /\ Len(progress.campaign.completed_encounters) = Len(progress.campaign.encounters)

\* the character loop of a turn is running
InTurn == pc \in {"char", "validate"}

\* a choose_action call: the step from the loop position to its intent
ChooseStep == pc = "char" /\ pc' \in {"validate", "raised"}

\* a resolve_intent call with its _apply_outcome and log line
ResolveStep == pc = "validate" /\ Len(outcomes') = Len(outcomes) + 1

\* C35: build_scene is called once per turn, before the turn's first
\* choose_action; the scene stays the same for every choose_action of the
\* turn, and the TurnResult of the turn records that scene's prompt
C35_OneScenePerTurn ==
  /\ [](InTurn => directorCalls = turn_number)
  /\ [][(InTurn /\ pc' \in {"char", "validate", "raised"})
          => (scene' = scene /\ directorCalls' = directorCalls)]_vars
  /\ [][(pc = "head" /\ pc' = "char")
          => (directorCalls' = directorCalls + 1 /\ intents' = <<>>)]_vars
  /\ [][(turns' # turns /\ turns' # <<>>)
          => /\ InTurn
             /\ Len(turns') = Len(turns) + 1
             /\ turns'[Len(turns')].scene_prompt = scene.prompt
             /\ turns'[Len(turns')].turn_index = directorCalls]_vars

\* the second character of the second turn is about to choose, in a scene
\* that differs from the first turn's
C35_Witness ==
  /\ pc = "char"
  /\ turn_number = 2
  /\ idx = 2
  /\ Len(intents) = 1
  /\ Len(campaign.party) = 2
  /\ campaign.party[2].hp > 0
  /\ Len(turns) = 1
  /\ turns[1].scene_prompt # scene.prompt

\* position in the party of the character with this name
PositionOf(name) == CHOOSE i \in DOMAIN campaign.party : campaign.party[i].name = name

\* the party without its hit points
Membership(c) == [i \in DOMAIN c.party |-> [c.party[i] EXCEPT !.hp = 0]]

\* C36: within a turn the characters are visited in party order, one
\* position at a time; choose_action is called exactly for those with
\* hp > 0 when their position is reached, once each; the party's members,
\* order and length never change
C36_PartyOrder ==
  /\ [][ChooseStep
          => /\ campaign.party[idx].hp > 0
             /\ idx' = idx
             /\ pc' = "validate" => intent'.actor_name = campaign.party[idx].name]_vars
  /\ [][(pc = "char" /\ pc' = "char" /\ idx' # idx)
          => (idx' = idx + 1 /\ campaign.party[idx].hp <= 0)]_vars
  /\ [][(pc = "validate" /\ pc' # "validate")
          => (pc' = "char" /\ idx' = idx + 1)]_vars
  /\ [](InTurn
          => /\ \A a, b \in DOMAIN intents :
                  a < b => PositionOf(intents[a].actor_name)
                             < PositionOf(intents[b].actor_name)
             /\ \A a \in DOMAIN intents : PositionOf(intents[a].actor_name) < idx)
  /\ [](Membership(campaign) = Membership(start))

\* a defeated first character was passed over and the second one chose
C36_Witness ==
  /\ pc = "validate"
  /\ idx = 2
  /\ campaign.party[1].hp = 0
  /\ intents = <<>>
  /\ intent.actor_name = campaign.party[2].name

\* the latest value an outcome of the current turn gave to the flag
LatestUpdate(key) ==
  LET setting == {i \in DOMAIN outcomes : key \in DOMAIN outcomes[i].flag_updates}
  IN  IF setting = {} THEN <<>>
      ELSE <<outcomes[CHOOSE i \in setting : \A j \in setting : j <= i].flag_updates[key]>>

\* C37: when the loop reaches the next position, the outcome of the
\* position before is applied: hp changed and clamped at 0, flag_updates
\* merged into the flags, one log line appended; a latest_discovery set by
\* an earlier actor of the turn is in the flags every later actor is
\* scored with
C37_CausalOrder ==
  /\ [][ResolveStep
          => LET o == outcomes'[Len(outcomes')]
             IN  /\ pc' = "char"
                 /\ idx' = idx + 1
                 /\ \A i \in DOMAIN campaign.party :
                      LET name == campaign.party[i].name
                          hp == campaign.party[i].hp
                                  + (IF name \in DOMAIN o.hp_delta THEN o.hp_delta[name] ELSE 0)
                      IN  campaign'.party[i].hp = IF hp > 0 THEN hp ELSE 0
                 /\ \A k \in DOMAIN o.flag_updates :
                      /\ k \in DOMAIN campaign'.flags
                      /\ campaign'.flags[k] = o.flag_updates[k]
                 /\ \A k \in DOMAIN campaign.flags \ DOMAIN o.flag_updates :
                      /\ k \in DOMAIN campaign'.flags
                      /\ campaign'.flags[k] = campaign.flags[k]
                 /\ Len(campaign'.log) = Len(campaign.log) + 1
                 /\ campaign'.log[Len(campaign'.log)].text = o.summary
                 /\ campaign'.log[Len(campaign'.log)].turn = turn_number]_vars
  /\ [](InTurn
          => \A k \in {"latest_discovery"} :
               LatestUpdate(k) # <<>>
                 => (k \in DOMAIN campaign.flags
                     /\ campaign.flags[k] = LatestUpdate(k)[1]))

\* the first character's investigate succeeded and the second, alive, is
\* about to choose
C37_Witness ==
  /\ pc = "char"
  /\ idx = 2
  /\ Len(campaign.party) = 2
  /\ campaign.party[2].hp > 0
  /\ Len(outcomes) = 1
  /\ "latest_discovery" \in DOMAIN outcomes[1].flag_updates
  /\ "latest_discovery" \in DOMAIN campaign.flags
  /\ campaign.flags["latest_discovery"] = "clue_discovered"

\* GenericD20Ruleset or SRD2024Ruleset
ShippedRuleset == cfg.ruleset \in {"generic", "srd"}

\* C38: under the shipped rulesets a character's hp changes only by the
\* character's own resolved action; a character at hp 0 stays at 0, has no
\* intent under validation, and is among the turn's intents only if its
\* own action of this turn cost it hp
C38_DefeatAbsorbing ==
  /\ [][(ShippedRuleset /\ runNo' = runNo)
          => \A i \in DOMAIN campaign.party :
               /\ campaign'.party[i].hp # campaign.party[i].hp
                    => (ResolveStep /\ intent.actor_name = campaign.party[i].name)
               /\ campaign.party[i].hp = 0 => campaign'.party[i].hp = 0]_vars
  /\ [](ShippedRuleset /\ pc = "validate"
          => campaign.party[PositionOf(intent.actor_name)].hp > 0)
  /\ [](ShippedRuleset /\ InTurn
          => \A a \in DOMAIN outcomes :
               LET name == outcomes[a].actor_name
               IN  campaign.party[PositionOf(name)].hp = 0
                     => (name \in DOMAIN outcomes[a].hp_delta
                         /\ outcomes[a].hp_delta[name] < 0))

\* a character that acted in the first turn is down in the second and was
\* passed over
C38_Witness ==
  /\ ShippedRuleset
  /\ pc = "char"
  /\ turn_number = 2
  /\ idx = 2
  /\ campaign.party[1].hp = 0
  /\ intents = <<>>
  /\ Len(turns) = 1
  /\ turns[1].intents # <<>>
  /\ turns[1].intents[1].actor_name = campaign.party[1].name

\* C39: with HeuristicActor, SimpleDirector and GenericD20Ruleset a
\* character that starts with hp >= 1 keeps hp >= 1 and rests whenever its
\* hp is 3 or less; a party with a living member is never all defeated, and
\* its run returns after exactly max_turns turns
C39_HeuristicSurvives ==
  /\ [](\A i \in DOMAIN start.party :
          start.party[i].hp >= 1 => campaign.party[i].hp >= 1)
  /\ [][(ChooseStep /\ campaign.party[idx].hp <= 3) => intent'.action = "rest"]_vars
  /\ []((\E i \in DOMAIN start.party : start.party[i].hp >= 1)
          => /\ ~AllPartyDefeated(campaign)
             /\ pc # "exit"
             /\ \A k \in DOMAIN campaign.log : campaign.log[k] # EndedLine
             /\ pc = "done"
                  => (Len(result.turns) = cfg.max_turns
                      /\ result.total_turns = cfg.max_turns))

\* a character that took strain from a missed attack and is down to hp 3,
\* with its next choice due
C39_Witness ==
  /\ pc = "char"
  /\ turn_number = 2
  /\ idx = 2
  /\ campaign.party[2].hp = 3
  /\ start.party[2].hp = 4
  /\ Len(turns) = 1
  /\ Len(turns[1].outcomes) = 2
  /\ turns[1].outcomes[2].summary = "misses and takes strain"

\* C40: for every model response AIDirector.build_scene returns options
\* that are not empty, all among the fallback director's options for the
\* turn, and so all accepted by the ruleset paired with that director
C40_AiSceneWithinFallback ==
  (opIn.op = "ai_build_scene" /\ opOut.called)
    => /\ opOut.scene.options # <<>>
       /\ Range(opOut.scene.options) \subseteq Range(opOut.fallback.options)
       /\ \A i \in DOMAIN opOut.scene.options :
            ValidateIntent(IF opIn.base = "srd" THEN "srd" ELSE "generic",
                           opOut.scene.options[i])

\* a response that mixes the ruleset's tokens with others narrowed the scene
C40_Witness ==
  /\ opIn.op = "ai_build_scene"
  /\ opOut.called
  /\ opIn.base = "simple"
  /\ opIn.reply.islist
  /\ Raw("dance") \in Range(opIn.reply.options)
  /\ Raw("use-equipment") \in Range(opIn.reply.options)
  /\ opOut.scene.options = <<"rest">>
====
